---------------------------- MODULE Spec2Model ----------------------------
(***************************************************************************)
(* Model of the streaming chat path of the FastAPI chatbot backend:       *)
(*   - OpenAIService.stream_chat (app/services/openai_service.py), the    *)
(*     generator that turns provider chunks into response.* events;       *)
(*   - the POST /stream handler and its generate() (app/routers/chat.py), *)
(*     which frames every event for the client and persists finished      *)
(*     assistant messages;                                                *)
(*   - ChatService.add_message / delete_session                           *)
(*     (app/services/chat_service.py).                                    *)
(*                                                                         *)
(* One request is followed from its arrival to its end.  stream_chat is a  *)
(* generator: the events it yields while handling one chunk are queued in *)
(* `pending` and taken one at a time by generate(), which is where the    *)
(* generator is suspended in the code.                                     *)
(***************************************************************************)
EXTENDS Naturals, Sequences, FiniteSets, TLC

VARIABLES
    pc,                  \* where the request handler / generate() stands
    sc,                  \* where the stream_chat generator stands
    clock,               \* last value read from time.time() (milliseconds)
    consumed,            \* the provider chunks read so far, in order
    current_message,     \* stream_chat local: accumulated text
    current_tool_calls,  \* stream_chat local: dict id -> {id, name, arguments}, in insertion order
    message_id,          \* stream_chat local: id of the text item
    pending,             \* events yielded for the current chunk, not yet taken by generate()
    events,              \* events stream_chat has handed to generate(), in order
    frames,              \* SSE frames written to the client, in order
    session,             \* the chat session row and its messages in the database
    chatbot,             \* the Chatbot row of the session (its AI configuration)
    request_tools,       \* request.tools, the caller's tool specs
    create_call,         \* the arguments of stream_chat's completions.create call, once made
    writers,             \* concurrent add_message calls on the session: where each stands
    http,                \* an HTTP request to the chat router and the route it was given to
    db_sessions          \* the chat_sessions table as the router's session routes see it

\* the variables of the provider call, which only stream_chat's start sets
callVars == <<chatbot, request_tools, create_call>>

\* the variables of the requests that run beside the stream
otherVars == <<writers, http, db_sessions>>

vars == <<pc, sc, clock, consumed, current_message, current_tool_calls,
          message_id, pending, events, frames, session, chatbot,
          request_tools, create_call, writers, http, db_sessions>>

----------------------------------------------------------------------------
(* Bounds of the model *)

\* number of chunks the provider delivers at most before its stream ends or raises
MaxChunks == 2

\* largest value of the millisecond clock
MaxClock == 1

----------------------------------------------------------------------------
(* Values *)

\* Python's None
NoneV == "<None>"

\* Python truthiness of an Optional[str]: None and "" are falsy
Truthy(s) == s # NoneV /\ s # ""

\* concatenation of a sequence of strings
RECURSIVE ConcatAll(_)
ConcatAll(ss) == IF ss = <<>> THEN "" ELSE Head(ss) \o ConcatAll(Tail(ss))

Last(s) == s[Len(s)]

\* argument fragments of scenario B
Frag1 == "{\"locat"
Frag2 == "ion\":\"Tokyo\"}"

----------------------------------------------------------------------------
(* Provider chunks (openai ChatCompletionChunk) *)

\* one element of delta.tool_calls: id is Optional, function is Optional,
\* function.name and function.arguments are Optional
ToolDelta(id, hasFunction, name, arguments) ==
    [id |-> id, hasFunction |-> hasFunction, name |-> name, arguments |-> arguments]

\* a chunk: choices may be empty; otherwise choices[0] has a delta
\* (content Optional, tool_calls Optional) and an Optional finish_reason
Chunk(hasChoices, content, tool_calls, finish_reason) ==
    [hasChoices |-> hasChoices, content |-> content,
     tool_calls |-> tool_calls, finish_reason |-> finish_reason]

NoChoicesChunk == Chunk(FALSE, NoneV, <<>>, NoneV)

\* chunks that carry text only: the finish-only chunk, an empty content
\* delta, fragments, and a fragment together with the finish reason
TextChunks ==
    { Chunk(TRUE, NoneV, <<>>, "stop"),
      Chunk(TRUE, "", <<>>, NoneV),
      Chunk(TRUE, "Hel", <<>>, NoneV),
      Chunk(TRUE, "lo", <<>>, NoneV),
      Chunk(TRUE, "lo", <<>>, "stop") }

\* tool-call deltas: a call opened with its id and name (without and with a
\* first fragment), a continuation keyed by the id, a second call, a delta
\* without function, and a continuation that carries no id
OpenC1Empty == ToolDelta("c1", TRUE, "get_weather", "")
OpenC1      == ToolDelta("c1", TRUE, "get_weather", Frag1)
MoreC1      == ToolDelta("c1", TRUE, NoneV, Frag2)
OpenC2      == ToolDelta("c2", TRUE, "get_weather", Frag1)
BareC2      == ToolDelta("c2", FALSE, NoneV, NoneV)
MoreNoId    == ToolDelta(NoneV, TRUE, NoneV, Frag2)

\* chunks that carry one tool-call delta, some with the finish reason
ToolChunks ==
    { Chunk(TRUE, NoneV, <<OpenC1Empty>>, NoneV),
      Chunk(TRUE, NoneV, <<OpenC1>>, NoneV),
      Chunk(TRUE, NoneV, <<MoreC1>>, NoneV),
      Chunk(TRUE, NoneV, <<MoreC1>>, "tool_calls"),
      Chunk(TRUE, NoneV, <<OpenC2>>, NoneV),
      Chunk(TRUE, NoneV, <<BareC2>>, "tool_calls"),
      Chunk(TRUE, NoneV, <<MoreNoId>>, NoneV),
      Chunk(TRUE, NoneV, <<MoreNoId>>, "tool_calls") }

\* chunks that carry text and two tool-call deltas
MixedChunks ==
    { Chunk(TRUE, "Hel", <<OpenC2, OpenC1>>, "tool_calls"),
      Chunk(TRUE, "Hel", <<OpenC1, MoreNoId>>, "tool_calls"),
      Chunk(TRUE, "Hel", <<MoreNoId, MoreNoId>>, NoneV) }

Chunks == {NoChoicesChunk} \cup TextChunks \cup ToolChunks \cup MixedChunks

\* the chunks of the liveness specification: text with and without a finish
\* reason, a tool call in two fragments, text and tool calls in one chunk
LiveChunks ==
    { NoChoicesChunk,
      Chunk(TRUE, "Hel", <<>>, NoneV),
      Chunk(TRUE, "lo", <<>>, "stop"),
      Chunk(TRUE, NoneV, <<OpenC1>>, NoneV),
      Chunk(TRUE, NoneV, <<MoreC1>>, "tool_calls"),
      Chunk(TRUE, "Hel", <<OpenC1, MoreNoId>>, "tool_calls") }

----------------------------------------------------------------------------
(* Events yielded by stream_chat.  Every event is a record with the same   *)
(* fields; a field an event does not carry is NoneV (content: <<>>).       *)

Ev(event, item_id, type, role, name, delta, text, arguments, status, content, message) ==
    [event |-> event, item_id |-> item_id, type |-> type, role |-> role,
     name |-> name, delta |-> delta, text |-> text, arguments |-> arguments,
     status |-> status, content |-> content, message |-> message]

TextDeltaEv(id, delta, text) ==
    Ev("response.output_text.delta", id, NoneV, NoneV, NoneV, delta, text,
       NoneV, NoneV, <<>>, NoneV)

ItemAddedEv(id, name) ==
    Ev("response.output_item.added", id, "function_call", NoneV, name, NoneV, NoneV,
       "", "in_progress", <<>>, NoneV)

ArgsDeltaEv(id, delta) ==
    Ev("response.function_call_arguments.delta", id, NoneV, NoneV, NoneV, delta, NoneV,
       NoneV, NoneV, <<>>, NoneV)

ArgsDoneEv(id, arguments) ==
    Ev("response.function_call_arguments.done", id, NoneV, NoneV, NoneV, NoneV, NoneV,
       arguments, NoneV, <<>>, NoneV)

MessageDoneEv(id, text) ==
    Ev("response.output_item.done", id, "message", "assistant", NoneV, NoneV, NoneV,
       NoneV, NoneV, <<[type |-> "output_text", text |-> text]>>, NoneV)

ToolDoneEv(id, name, arguments) ==
    Ev("response.output_item.done", id, "function_call", NoneV, name, NoneV, NoneV,
       arguments, "completed", <<>>, NoneV)

CompletedEv ==
    Ev("response.completed", NoneV, NoneV, NoneV, NoneV, NoneV, NoneV,
       NoneV, "completed", <<>>, NoneV)

\* the error event of stream_chat's except clause
StreamErrorEv ==
    Ev("error", NoneV, "streaming_error", NoneV, NoneV, NoneV, NoneV,
       NoneV, NoneV, <<>>, "exception")

\* the error event of generate()'s except clause: a message and no type
GenerateErrorEv ==
    Ev("error", NoneV, NoneV, NoneV, NoneV, NoneV, NoneV,
       NoneV, NoneV, <<>>, "exception")

\* the payload of the "data: [DONE]" frame
DoneSentinel ==
    Ev("[DONE]", NoneV, NoneV, NoneV, NoneV, NoneV, NoneV,
       NoneV, NoneV, <<>>, NoneV)

\* one SSE frame: "data: <payload>\n\n"
Frame(payload) == [data |-> payload]

----------------------------------------------------------------------------
(* OpenAIService.stream_chat: the handling of one chunk *)

\* the dict current_tool_calls, kept as the sequence of its values in
\* insertion order (the order a Python dict iterates in)
HasKey(ctc, id) == \E i \in 1..Len(ctc) : ctc[i].id = id

\* a faulty accumulation: the buffer of the call is overwritten by the fragment
AddArguments_Overwrite(ctc, id, fragment) ==
    [i \in 1..Len(ctc) |->
        IF ctc[i].id = id THEN [ctc[i] EXCEPT !.arguments = fragment] ELSE ctc[i]]

\* current_tool_calls[id]["arguments"] += fragment
AddArguments(ctc, id, fragment) ==
    [i \in 1..Len(ctc) |->
        IF ctc[i].id = id
        THEN [ctc[i] EXCEPT !.arguments = ctc[i].arguments \o fragment]
        ELSE ctc[i]]

\* a faulty map: the newest call comes first in the completion phase
InsertToolCall_First(ctc, id, name) ==
    <<[id |-> id, name |-> name, arguments |-> ""]>> \o ctc

\* current_tool_calls[id] = {...} for an id that is not a key yet
InsertToolCall(ctc, id, name) ==
    Append(ctc, [id |-> id, name |-> name, arguments |-> ""])

\* a faulty id rule: a delta without id is taken to continue the call c1
ToolId_Continue(tc, t) == IF Truthy(tc.id) THEN tc.id ELSE "c1"

\* tool_call.id or f"tool_{int(time.time() * 1000)}", the clock reading t
ToolId(tc, t) == IF Truthy(tc.id) THEN tc.id ELSE "tool_" \o ToString(t)

\* tool_call.function.name if tool_call.function else None
ToolName(tc) == IF tc.hasFunction THEN tc.name ELSE NoneV

\* a faulty loop body: a function name that arrives in a later delta replaces
\* the name stored when the id was first seen
HandleToolCall_Rename(tc, t, ctc) ==
    LET tool_id == ToolId(tc, t)
        isNew   == ~HasKey(ctc, tool_id)
        ctc1    == IF isNew THEN InsertToolCall(ctc, tool_id, ToolName(tc))
                   ELSE [i \in 1..Len(ctc) |->
                            IF ctc[i].id = tool_id /\ Truthy(ToolName(tc))
                            THEN [ctc[i] EXCEPT !.name = ToolName(tc)] ELSE ctc[i]]
        added   == IF isNew THEN <<ItemAddedEv(tool_id, ToolName(tc))>> ELSE <<>>
        hasArgs == tc.hasFunction /\ Truthy(tc.arguments)
    IN  [ctc |-> IF hasArgs THEN AddArguments(ctc1, tool_id, tc.arguments) ELSE ctc1,
         evs |-> added \o (IF hasArgs THEN <<ArgsDeltaEv(tool_id, tc.arguments)>> ELSE <<>>)]

\* the body of `for tool_call in delta.tool_calls` for one tool_call read at
\* clock value t: the dict after it and the events it yields
HandleToolCall(tc, t, ctc) ==
    LET tool_id == ToolId(tc, t)
        isNew   == ~HasKey(ctc, tool_id)
        ctc1    == IF isNew THEN InsertToolCall(ctc, tool_id, ToolName(tc)) ELSE ctc
        added   == IF isNew THEN <<ItemAddedEv(tool_id, ToolName(tc))>> ELSE <<>>
        hasArgs == tc.hasFunction /\ Truthy(tc.arguments)
    IN  [ctc |-> IF hasArgs THEN AddArguments(ctc1, tool_id, tc.arguments) ELSE ctc1,
         evs |-> added \o (IF hasArgs THEN <<ArgsDeltaEv(tool_id, tc.arguments)>> ELSE <<>>)]

RECURSIVE HandleToolCalls(_, _, _)
\* the loop over delta.tool_calls; ts[i] is the clock value at the i-th one
HandleToolCalls(tcs, ts, ctc) ==
    IF tcs = <<>> THEN [ctc |-> ctc, evs |-> <<>>]
    ELSE LET one  == HandleToolCall(Head(tcs), Head(ts), ctc)
             rest == HandleToolCalls(Tail(tcs), Tail(ts), one.ctc)
         IN  [ctc |-> rest.ctc, evs |-> one.evs \o rest.evs]

RECURSIVE CompleteToolCalls(_)
\* `for tool_id, tool_data in current_tool_calls.items()`: arguments.done, then
\* output_item.done, per tool call in the dict's order
CompleteToolCalls(ctc) ==
    IF ctc = <<>> THEN <<>>
    ELSE <<ArgsDoneEv(Head(ctc).id, Head(ctc).arguments),
           ToolDoneEv(Head(ctc).id, Head(ctc).name, Head(ctc).arguments)>>
         \o CompleteToolCalls(Tail(ctc))

\* a faulty finish: the message item is finished without looking at the
\* buffer
CompleteMessage_Always(msg_id, cm) == <<MessageDoneEv(msg_id, cm)>>

\* `if current_message:` the message item is completed
CompleteMessage(msg_id, cm) ==
    IF Truthy(cm) THEN <<MessageDoneEv(msg_id, cm)>> ELSE <<>>

\* a faulty finish: response.completed is sent as soon as a finish reason is seen
FinishEvents_Completed(msg_id, cm, ctc) ==
    CompleteMessage(msg_id, cm) \o CompleteToolCalls(ctc) \o <<CompletedEv>>

\* the events of `if chunk.choices and chunk.choices[0].finish_reason:`
FinishEvents(msg_id, cm, ctc) == CompleteMessage(msg_id, cm) \o CompleteToolCalls(ctc)

\* a faulty accumulation: the buffer is overwritten by the fragment
Accumulate_Overwrite(cm, content) == IF Truthy(content) THEN content ELSE cm

\* current_message += delta.content, when delta.content is truthy
Accumulate(cm, content) == IF Truthy(content) THEN cm \o content ELSE cm

\* a faulty text delta: `delta` carries the cumulative text
ContentEvents_Cumulative(msg_id, cm, content) ==
    IF Truthy(content) THEN <<TextDeltaEv(msg_id, cm \o content, cm \o content)>> ELSE <<>>

\* a faulty text delta: `text` is the buffer before the fragment is added
ContentEvents_StaleText(msg_id, cm, content) ==
    IF Truthy(content) THEN <<TextDeltaEv(msg_id, content, cm)>> ELSE <<>>

\* the events of `if delta.content:`
ContentEvents(msg_id, cm, content) ==
    IF Truthy(content) THEN <<TextDeltaEv(msg_id, content, cm \o content)>> ELSE <<>>

\* a faulty iteration: the finish reason is handled before the chunk's own
\* content and tool-call deltas
HandleChunk_FinishFirst(c, ts, msg_id, cm, ctc) ==
    IF ~c.hasChoices
    THEN [cm |-> cm, ctc |-> ctc, evs |-> <<>>]
    ELSE LET cm1   == Accumulate(cm, c.content)
             tools == HandleToolCalls(c.tool_calls, ts, ctc)
             fin   == IF Truthy(c.finish_reason)
                      THEN FinishEvents(msg_id, cm, ctc) ELSE <<>>
         IN  [cm  |-> cm1,
              ctc |-> tools.ctc,
              evs |-> fin \o ContentEvents(msg_id, cm, c.content) \o tools.evs]

\* one iteration of `async for chunk in stream`: the locals after it and the
\* events it yields, in order
HandleChunk(c, ts, msg_id, cm, ctc) ==
    IF ~c.hasChoices
    THEN [cm |-> cm, ctc |-> ctc, evs |-> <<>>]
    ELSE LET cm1   == Accumulate(cm, c.content)
             tools == HandleToolCalls(c.tool_calls, ts, ctc)
             fin   == IF Truthy(c.finish_reason)
                      THEN FinishEvents(msg_id, cm1, tools.ctc) ELSE <<>>
         IN  [cm  |-> cm1,
              ctc |-> tools.ctc,
              evs |-> ContentEvents(msg_id, cm, c.content) \o tools.evs \o fin]

\* the clock readings a chunk's tool calls can see: one per tool call, never
\* going back; a tool call that carries an id does not read the clock
ClockReadings(c, from) ==
    { ts \in [1..Len(c.tool_calls) -> from..MaxClock] :
        \A i \in 1..Len(c.tool_calls) :
            LET prev == IF i = 1 THEN from ELSE ts[i - 1]
            IN  IF Truthy(c.tool_calls[i].id) THEN ts[i] = prev ELSE ts[i] >= prev }

----------------------------------------------------------------------------
(* The database: ChatSession row and its ChatMessage rows *)

\* the text of the user's request
UserText == "hi"

\* the ChatMessage add_message creates
ChatMessage(role, content) ==
    [role |-> role, message_type |-> "message",
     content |-> <<[type |-> IF role = "user" THEN "input_text" ELSE "output_text",
                    text |-> content]>>,
     raw_content |-> content]

\* a faulty add_message: the message row is committed first and the
\* message_count update is left to a second commit that has not happened
AddMessage_RowOnly(s, role, content) ==
    [s EXCEPT !.messages = Append(@, ChatMessage(role, content))]

\* ChatService.add_message on a session that exists: the message row and
\* message_count + 1, in one commit
AddMessage(s, role, content) ==
    [s EXCEPT !.message_count = @ + 1,
              !.messages = Append(@, ChatMessage(role, content))]

\* ChatService.delete_session: the row is deleted, its messages cascade
DeletedSession == [exists |-> FALSE, message_count |-> 0, messages |-> <<>>]

\* generate(): the text of the first output_text part of a finished item
RECURSIVE ContentText(_)
ContentText(content) ==
    IF content = <<>> THEN ""
    ELSE IF Head(content).type = "output_text" THEN Head(content).text
    ELSE ContentText(Tail(content))

\* generate(): whether an event makes it call add_message
NeedsPersist(e) ==
    /\ e.event = "response.output_item.done"
    /\ e.type = "message"
    /\ e.role = "assistant"
    /\ Truthy(ContentText(e.content))

----------------------------------------------------------------------------
(* The provider call: prompt and parameters of completions.create *)

\* an Optional value that is not a string: None is <<>>, a value v is <<v>>
None == <<>>
Some(v) == <<v>>

\* process-wide defaults (Settings); numbers are kept as their decimal text
OPENAI_MODEL == "gpt-4o"
OPENAI_TEMPERATURE == "0.7"
OPENAI_MAX_TOKENS == "4096"

\* Python truthiness of an Optional number: None, 0 and 0.0 are falsy
TruthyNum(x) == x # NoneV /\ x # "0" /\ x # "0.0"

\* `a or b` for an Optional[str] a
OrStr(a, b) == IF Truthy(a) THEN a ELSE b

\* `a or b` for an Optional number a
OrNum(a, b) == IF TruthyNum(a) THEN a ELSE b

\* Python truthiness of an Optional list: None and [] are falsy
TruthyList(l) == l # None /\ l[1] # <<>>

\* a Chatbot row, the columns stream_chat reads
Chatbot(model, prompt, temp, max_tok, top_p, freq_pen, pres_pen, enabled) ==
    [model |-> model, system_prompt |-> prompt,
     temperature |-> temp, max_tokens |-> max_tok, top_p |-> top_p,
     frequency_penalty |-> freq_pen,
     presence_penalty |-> pres_pen, tools_enabled |-> enabled]

\* a stored ChatMessage row of any kind
StoredMessage(role, message_type, raw_content) ==
    [role |-> role, message_type |-> message_type,
     content |-> <<>>, raw_content |-> raw_content]

\* a faulty to_openai_format: the message type is not looked at
ToOpenAIFormat_AnyType(msg) ==
    IF msg.role \in {"user", "assistant", "system"}
    THEN Some([role |-> msg.role, content |-> OrStr(msg.raw_content, "")])
    ELSE None

\* ChatMessage.to_openai_format: a dict for a MESSAGE of role user,
\* assistant or system, else None
ToOpenAIFormat(msg) ==
    IF msg.message_type = "message" /\ msg.role \in {"user", "assistant", "system"}
    THEN Some([role |-> msg.role, content |-> OrStr(msg.raw_content, "")])
    ELSE None

RECURSIVE FormatStored(_)
\* `for msg in messages`: the entries of the stored messages, in order;
\* a None result is skipped
FormatStored(messages) ==
    IF messages = <<>> THEN <<>>
    ELSE ToOpenAIFormat(Head(messages)) \o FormatStored(Tail(messages))

\* a faulty system entry: it is sent whenever the prompt is not None
SystemEntry_NotNone(bot) ==
    IF bot.system_prompt # NoneV
    THEN <<[role |-> "system", content |-> bot.system_prompt]>>
    ELSE <<>>

\* `if chatbot.system_prompt:` the system entry of the bot
SystemEntry(bot) ==
    IF Truthy(bot.system_prompt)
    THEN <<[role |-> "system", content |-> bot.system_prompt]>>
    ELSE <<>>

\* OpenAIService._format_messages
FormatMessages(messages, bot) == SystemEntry(bot) \o FormatStored(messages)

\* a faulty tools argument: the caller's list is cut down to the tools the
\* bot enables
ToolsArg_Filtered(tls, bot) ==
    IF TruthyList(tls) /\ TruthyList(bot.tools_enabled)
    THEN Some(SelectSeq(tls[1], LAMBDA t :
                 \E i \in 1..Len(bot.tools_enabled[1]) : bot.tools_enabled[1][i] = t.name))
    ELSE None

\* tools=tools if tools and chatbot.tools_enabled else None
ToolsArg(tls, bot) ==
    IF TruthyList(tls) /\ TruthyList(bot.tools_enabled) THEN tls ELSE None

\* the keyword arguments of self.client.chat.completions.create
CreateArgs(messages, bot, tls) ==
    [made |-> TRUE,
     model |-> OrStr(bot.model, OPENAI_MODEL),
     messages |-> FormatMessages(messages, bot),
     temperature |-> OrNum(bot.temperature, OPENAI_TEMPERATURE),
     max_tokens |-> OrNum(bot.max_tokens, OPENAI_MAX_TOKENS),
     top_p |-> OrNum(bot.top_p, "1.0"),
     frequency_penalty |-> OrNum(bot.frequency_penalty, "0.0"),
     presence_penalty |-> OrNum(bot.presence_penalty, "0.0"),
     tools |-> ToolsArg(tls, bot)]

\* no call has been made yet
NoCall ==
    [made |-> FALSE, model |-> NoneV, messages |-> <<>>, temperature |-> NoneV,
     max_tokens |-> NoneV, top_p |-> NoneV, frequency_penalty |-> NoneV,
     presence_penalty |-> NoneV, tools |-> None]

\* a bot with the column defaults of the Chatbot table and a system prompt
DefaultBot ==
    Chatbot("gpt-4o", "Be brief.", "0.7", "4096", "1.0", "0.0", "0.0", Some(<<>>))

----------------------------------------------------------------------------
(* Requests that run beside the stream *)

\* the requests that call add_message on the same chat session, each with
\* its own database session
Writers == {"w1", "w2"}

\* number of add_message calls one such request makes at most
MaxCalls == 2

\* no concurrent add_message call has started
NoWriters == [w \in Writers |-> [at |-> "idle", seen |-> 0, calls |-> 0]]

\* no HTTP request to the session routes has arrived
NoRequest == [method |-> NoneV, path |-> <<>>, handler |-> NoneV, status |-> NoneV]

\* the ids of the rows of chat_sessions
SessionIds == {"s1", "s2", "s3"}

\* a row of chat_sessions that does not exist
NoRow == [exists |-> FALSE, messages |-> 0]

\* the empty chat_sessions table
NoTable == [s \in SessionIds |-> NoRow]

----------------------------------------------------------------------------
(* Initial state: a request arrives for an existing, empty session *)

Init ==
    /\ pc = "request"
    /\ sc = "idle"
    /\ clock \in 0..MaxClock
    /\ consumed = <<>>
    /\ current_message = ""
    /\ current_tool_calls = <<>>
    /\ message_id = NoneV
    /\ pending = <<>>
    /\ events = <<>>
    /\ frames = <<>>
    /\ session = [exists |-> TRUE, message_count |-> 0, messages |-> <<>>]
    /\ chatbot = DefaultBot
    /\ request_tools = None
    /\ create_call = NoCall
    /\ writers = NoWriters
    /\ http = NoRequest
    /\ db_sessions = NoTable

----------------------------------------------------------------------------
(* Actions *)

\* a faulty handler: the stream is started and the user turn is left to be
\* written afterwards
HandleRequest_Late ==
    /\ pc = "request"
    /\ pc' = IF session.exists THEN "streaming" ELSE "rejected"
    /\ UNCHANGED <<sc, clock, consumed, current_message, current_tool_calls,
                   message_id, pending, events, frames, session>>
    /\ UNCHANGED callVars
    /\ UNCHANGED otherVars

\* POST /stream up to `return EventSourceResponse(generate())`: 404 when the
\* session is gone, else the user message is added
HandleRequest ==
    /\ pc = "request"
    /\ IF session.exists
       THEN /\ session' = AddMessage(session, "user", UserText)
            /\ pc' = "streaming"
       ELSE /\ pc' = "rejected"
            /\ UNCHANGED session
    /\ UNCHANGED <<sc, clock, consumed, current_message, current_tool_calls,
                   message_id, pending, events, frames>>
    /\ UNCHANGED callVars
    /\ UNCHANGED otherVars

\* stream_chat: the prompt is formatted from the messages the handler read
\* after adding the user turn, the completions.create call returns a
\* stream; the locals are initialised, message_id from the clock
OpenStream ==
    /\ pc = "streaming"
    /\ sc = "idle"
    /\ sc' = "open"
    /\ create_call' = CreateArgs(session.messages, chatbot, request_tools)
    /\ UNCHANGED <<chatbot, request_tools>>
    /\ UNCHANGED otherVars
    /\ current_message' = ""
    /\ current_tool_calls' = <<>>
    /\ message_id' = "msg_" \o ToString(clock)
    /\ UNCHANGED <<pc, clock, consumed, pending, events, frames, session>>

\* stream_chat: one chunk, drawn from cs, is read and handled; its events
\* wait in `pending`
ReadChunkFrom(cs) ==
    /\ pc = "streaming"
    /\ sc = "open"
    /\ pending = <<>>
    /\ Len(consumed) < MaxChunks
    /\ \E c \in cs :
         \E ts \in ClockReadings(c, clock) :
            LET r == HandleChunk(c, ts, message_id, current_message, current_tool_calls)
            IN  /\ consumed' = Append(consumed, c)
                /\ current_message' = r.cm
                /\ current_tool_calls' = r.ctc
                /\ pending' = r.evs
                /\ clock' = IF ts = <<>> THEN clock ELSE Last(ts)
    /\ UNCHANGED <<pc, sc, message_id, events, frames, session>>
    /\ UNCHANGED callVars
    /\ UNCHANGED otherVars

ReadChunk == ReadChunkFrom(Chunks)

\* the same step over the chunks of the liveness specification
ReadLiveChunk == ReadChunkFrom(LiveChunks)

\* stream_chat: the provider's stream is exhausted; response.completed
StreamEnd ==
    /\ pc = "streaming"
    /\ sc = "open"
    /\ pending = <<>>
    /\ pending' = <<CompletedEv>>
    /\ sc' = "returned"
    /\ UNCHANGED <<pc, clock, consumed, current_message, current_tool_calls,
                   message_id, events, frames, session>>
    /\ UNCHANGED callVars
    /\ UNCHANGED otherVars

\* a faulty except clause: the open items are completed before the error event
ProviderRaise_Flush ==
    /\ pc = "streaming"
    /\ sc \in {"idle", "open"}
    /\ pending = <<>>
    /\ pending' = FinishEvents(message_id, current_message, current_tool_calls)
                      \o <<StreamErrorEv>>
    /\ sc' = "failed"
    /\ UNCHANGED <<pc, clock, consumed, current_message, current_tool_calls,
                   message_id, events, frames, session>>
    /\ UNCHANGED callVars
    /\ UNCHANGED otherVars

\* a faulty stream_chat without its except clause: the exception leaves the
\* generator and is caught by generate(), which writes its own error frame
ProviderRaise_Propagate ==
    /\ pc = "streaming"
    /\ sc \in {"idle", "open"}
    /\ pending = <<>>
    /\ frames' = Append(frames, Frame(GenerateErrorEv))
    /\ pc' = "error"
    /\ sc' = "closed"
    /\ UNCHANGED <<clock, consumed, current_message, current_tool_calls,
                   message_id, pending, events, session>>
    /\ UNCHANGED callVars
    /\ UNCHANGED otherVars

\* stream_chat: the create call or a chunk read raises; the except clause
\* yields the error event
ProviderRaise ==
    /\ pc = "streaming"
    /\ sc \in {"idle", "open"}
    /\ pending = <<>>
    /\ pending' = <<StreamErrorEv>>
    /\ sc' = "failed"
    /\ UNCHANGED <<pc, clock, consumed, current_message, current_tool_calls,
                   message_id, events, frames, session>>
    /\ UNCHANGED callVars
    /\ UNCHANGED otherVars

\* a faulty generate(): add_message is started as a task that is never
\* awaited, and the stream goes on
Deliver_NoAwait ==
    /\ pc = "streaming"
    /\ pending # <<>>
    /\ events' = Append(events, Head(pending))
    /\ frames' = Append(frames, Frame(Head(pending)))
    /\ pending' = Tail(pending)
    /\ pc' = "streaming"
    /\ UNCHANGED <<sc, clock, consumed, current_message, current_tool_calls,
                   message_id, session>>
    /\ UNCHANGED callVars
    /\ UNCHANGED otherVars

\* a faulty generate(): response.output_item.added events are taken from
\* stream_chat but no frame is written for them
Deliver_DropAdded ==
    /\ pc = "streaming"
    /\ pending # <<>>
    /\ events' = Append(events, Head(pending))
    /\ frames' = IF Head(pending).event = "response.output_item.added"
                 THEN frames
                 ELSE Append(frames, Frame(Head(pending)))
    /\ pending' = Tail(pending)
    /\ pc' = IF NeedsPersist(Head(pending)) THEN "persisting" ELSE "streaming"
    /\ UNCHANGED <<sc, clock, consumed, current_message, current_tool_calls,
                   message_id, session>>
    /\ UNCHANGED callVars
    /\ UNCHANGED otherVars

\* generate(): the next event is taken from stream_chat and written as a
\* frame; a finished assistant message then awaits add_message
Deliver ==
    /\ pc = "streaming"
    /\ pending # <<>>
    /\ events' = Append(events, Head(pending))
    /\ frames' = Append(frames, Frame(Head(pending)))
    /\ pending' = Tail(pending)
    /\ pc' = IF NeedsPersist(Head(pending)) THEN "persisting" ELSE "streaming"
    /\ UNCHANGED <<sc, clock, consumed, current_message, current_tool_calls,
                   message_id, session>>
    /\ UNCHANGED callVars
    /\ UNCHANGED otherVars

\* a faulty except clause in generate(): the exception is swallowed and the
\* stream ends without an error frame
Persist_Silent ==
    /\ pc = "persisting"
    /\ IF session.exists
       THEN /\ session' = AddMessage(session, "assistant", ContentText(Last(events).content))
            /\ pc' = "streaming"
            /\ UNCHANGED <<sc, pending>>
       ELSE /\ pc' = "error"
            /\ sc' = "closed"
            /\ pending' = <<>>
            /\ UNCHANGED session
    /\ UNCHANGED <<clock, consumed, current_message, current_tool_calls,
                   message_id, events, frames>>
    /\ UNCHANGED callVars
    /\ UNCHANGED otherVars

\* a faulty generate(): the failed write is reported in an error frame and
\* the loop over stream_chat's events goes on
Persist_Continue ==
    /\ pc = "persisting"
    /\ pc' = "streaming"
    /\ IF session.exists
       THEN /\ session' = AddMessage(session, "assistant", ContentText(Last(events).content))
            /\ UNCHANGED frames
       ELSE /\ frames' = Append(frames, Frame(GenerateErrorEv))
            /\ UNCHANGED session
    /\ UNCHANGED <<sc, pending, clock, consumed, current_message,
                   current_tool_calls, message_id, events>>
    /\ UNCHANGED callVars
    /\ UNCHANGED otherVars

\* a faulty except clause in generate(): the error frame is followed by the
\* [DONE] frame
Persist_ThenDone ==
    /\ pc = "persisting"
    /\ IF session.exists
       THEN /\ session' = AddMessage(session, "assistant", ContentText(Last(events).content))
            /\ pc' = "streaming"
            /\ UNCHANGED <<sc, pending, frames>>
       ELSE /\ frames' = frames \o <<Frame(GenerateErrorEv), Frame(DoneSentinel)>>
            /\ pc' = "error"
            /\ sc' = "closed"
            /\ pending' = <<>>
            /\ UNCHANGED session
    /\ UNCHANGED <<clock, consumed, current_message, current_tool_calls,
                   message_id, events>>
    /\ UNCHANGED callVars
    /\ UNCHANGED otherVars

\* a faulty add_message: the message row is stored before the session row is
\* looked up, so the failed call leaves a message behind
Persist_Orphan ==
    /\ pc = "persisting"
    /\ IF session.exists
       THEN /\ session' = AddMessage(session, "assistant", ContentText(Last(events).content))
            /\ pc' = "streaming"
            /\ UNCHANGED <<sc, pending, frames>>
       ELSE /\ frames' = Append(frames, Frame(GenerateErrorEv))
            /\ pc' = "error"
            /\ sc' = "closed"
            /\ pending' = <<>>
            /\ session' = AddMessage_RowOnly(session, "assistant", ContentText(Last(events).content))
    /\ UNCHANGED <<clock, consumed, current_message, current_tool_calls,
                   message_id, events>>
    /\ UNCHANGED callVars
    /\ UNCHANGED otherVars

\* generate(): await ChatService.add_message for the item just delivered;
\* it raises when the session is gone, and generate()'s except clause then
\* writes an error frame and ends without the [DONE] frame
Persist ==
    /\ pc = "persisting"
    /\ IF session.exists
       THEN /\ session' = AddMessage(session, "assistant", ContentText(Last(events).content))
            /\ pc' = "streaming"
            /\ UNCHANGED <<sc, pending, frames>>
       ELSE /\ frames' = Append(frames, Frame(GenerateErrorEv))
            /\ pc' = "error"
            /\ sc' = "closed"
            /\ pending' = <<>>
            /\ UNCHANGED session
    /\ UNCHANGED <<clock, consumed, current_message, current_tool_calls,
                   message_id, events>>
    /\ UNCHANGED callVars
    /\ UNCHANGED otherVars

\* generate(): stream_chat is exhausted; the [DONE] frame
SendDone ==
    /\ pc = "streaming"
    /\ sc \in {"returned", "failed"}
    /\ pending = <<>>
    /\ frames' = Append(frames, Frame(DoneSentinel))
    /\ pc' = "done"
    /\ UNCHANGED <<sc, clock, consumed, current_message, current_tool_calls,
                   message_id, pending, events, session>>
    /\ UNCHANGED callVars
    /\ UNCHANGED otherVars

\* a faulty cancellation path: the cancellation is caught like an ordinary
\* exception and generate()'s except clause writes an error frame
Disconnect_Caught ==
    /\ pc \in {"streaming", "persisting"}
    /\ pc' = "cancelled"
    /\ sc' = "closed"
    /\ pending' = <<>>
    /\ frames' = Append(frames, Frame(GenerateErrorEv))
    /\ UNCHANGED <<clock, consumed, current_message, current_tool_calls,
                   message_id, events, session>>
    /\ UNCHANGED callVars
    /\ UNCHANGED otherVars

\* the client disconnects while generate() is suspended at a yield or in its
\* await of add_message: CancelledError / GeneratorExit pass the
\* "except Exception" clauses and the generators are closed; a commit that
\* was in flight has either reached the database or not
Disconnect ==
    /\ pc \in {"streaming", "persisting"}
    /\ pc' = "cancelled"
    /\ sc' = "closed"
    /\ pending' = <<>>
    /\ \/ UNCHANGED session
       \/ /\ pc = "persisting"
          /\ session.exists
          /\ session' = AddMessage(session, "assistant", ContentText(Last(events).content))
    /\ UNCHANGED <<clock, consumed, current_message, current_tool_calls,
                   message_id, events, frames>>
    /\ UNCHANGED callVars
    /\ UNCHANGED otherVars

\* a concurrent DELETE /sessions/{id} request commits while this request is
\* running; this request looks at the session row only in add_message, so
\* the delete is placed right before an add_message
DeleteSession ==
    /\ pc \in {"request", "persisting"}
    /\ session.exists
    /\ session' = DeletedSession
    /\ UNCHANGED <<pc, sc, clock, consumed, current_message, current_tool_calls,
                   message_id, pending, events, frames>>
    /\ UNCHANGED callVars
    /\ UNCHANGED otherVars

Next ==
    \/ HandleRequest
    \/ OpenStream
    \/ ReadChunk
    \/ StreamEnd
    \/ ProviderRaise
    \/ Deliver
    \/ Persist
    \/ SendDone
    \/ Disconnect
    \/ DeleteSession

Spec == Init /\ [][Next]_vars

\* the request over the chunks of the liveness specification
NextLive ==
    \/ HandleRequest
    \/ OpenStream
    \/ ReadLiveChunk
    \/ StreamEnd
    \/ ProviderRaise
    \/ Deliver
    \/ Persist
    \/ SendDone
    \/ Disconnect
    \/ DeleteSession

\* the steps of the request's own task: the event loop keeps running it, the
\* provider's stream ends or raises, add_message returns or raises
Progress ==
    \/ HandleRequest
    \/ OpenStream
    \/ ReadLiveChunk
    \/ StreamEnd
    \/ ProviderRaise
    \/ Deliver
    \/ Persist
    \/ SendDone

FairSpec == Init /\ [][NextLive]_vars /\ WF_vars(Progress)

----------------------------------------------------------------------------
(* The provider call on its own: stream_chat is started on bounded sets of
   bot configurations, caller tool lists and stored histories *)

\* number of messages stored in the session before the request, at most
MaxStored == 2

\* values of a bot column: unset, zero / empty, and set
ModelValues == {NoneV, "", "gpt-4o-mini"}
FloatValues == {NoneV, "0.0", "0.5"}
IntValues   == {NoneV, "0", "256"}
PromptValues == {NoneV, "", "Be brief."}

\* the kinds of stored messages: every role as a MESSAGE (one without
\* raw_content), and the other message types
StoredKinds ==
    {StoredMessage(r, "message", "x") : r \in {"user", "assistant", "system", "tool"}}
    \cup {StoredMessage("assistant", "message", NoneV),
          StoredMessage("assistant", "tool_call", "c"),
          StoredMessage("tool", "tool_result", "r"),
          StoredMessage("system", "error", "e"),
          StoredMessage("system", "info", "i")}

\* the histories of at most MaxStored stored messages, in creation order
Histories == UNION {[1..n -> StoredKinds] : n \in 0..MaxStored}

\* caller tool lists and the bot's enabled-tools column
WeatherTool == [name |-> "get_weather"]
SearchTool  == [name |-> "web_search"]
ToolLists   == {None, Some(<<>>), Some(<<WeatherTool>>), Some(<<WeatherTool, SearchTool>>)}
EnabledLists == {None, Some(<<>>), Some(<<"web_search">>)}

\* the inputs of the call: the parameter columns vary over an empty history,
\* the prompt varies over all histories, the tool lists vary on their own
CallInputs ==
    {[bot |-> Chatbot(m, "Be brief.", t, mt, tp, fp, pp, Some(<<>>)),
      tls |-> None, stored |-> <<>>] :
        m \in ModelValues, t \in FloatValues, mt \in IntValues,
        tp \in FloatValues, fp \in FloatValues, pp \in FloatValues}
    \cup {[bot |-> [DefaultBot EXCEPT !.system_prompt = sp],
           tls |-> None, stored |-> h] :
        sp \in PromptValues, h \in Histories}
    \cup {[bot |-> [DefaultBot EXCEPT !.tools_enabled = en],
           tls |-> tl, stored |-> <<>>] :
        tl \in ToolLists, en \in EnabledLists}

\* the handler has added the user turn to a session with a stored history
\* and calls stream_chat
InitCall ==
    /\ pc = "streaming"
    /\ sc = "idle"
    /\ clock = 0
    /\ consumed = <<>>
    /\ current_message = ""
    /\ current_tool_calls = <<>>
    /\ message_id = NoneV
    /\ pending = <<>>
    /\ events = <<>>
    /\ frames = <<>>
    /\ create_call = NoCall
    /\ writers = NoWriters
    /\ http = NoRequest
    /\ db_sessions = NoTable
    /\ \E in \in CallInputs :
          /\ chatbot = in.bot
          /\ request_tools = in.tls
          /\ session = [exists |-> TRUE,
                        message_count |-> Len(in.stored) + 1,
                        messages |-> Append(in.stored, ChatMessage("user", UserText))]

NextCall == OpenStream

CallSpec == InitCall /\ [][NextCall]_vars

----------------------------------------------------------------------------
(* add_message called by concurrent requests on one chat session *)

\* streamVars: what the stream of the first request owns
streamVars == <<pc, sc, clock, consumed, current_message, current_tool_calls,
                message_id, pending, events, frames>>

\* the turn writer w adds with its next call: its user turn, then its
\* assistant turn
NextTurn(w) ==
    ChatMessage(IF writers[w].calls = 0 THEN "user" ELSE "assistant", w)

\* add_message, first half: `session = await db.get(ChatSession, session_id)`
\* in w's own database session; a missing row raises
ReadSessionRow(w) ==
    /\ writers[w].at = "idle"
    /\ writers[w].calls < MaxCalls
    /\ writers' = [writers EXCEPT ![w] =
                      IF session.exists
                      THEN [@ EXCEPT !.at = "read", !.seen = session.message_count]
                      ELSE [@ EXCEPT !.at = "raised"]]
    /\ UNCHANGED <<streamVars, session, callVars, http, db_sessions>>

\* add_message, second half: `session.message_count += 1` on the object that
\* was read, `db.add(message)` and `await db.commit()`: the row is updated
\* to the value computed in Python and the message row is inserted
CommitMessage(w) ==
    /\ writers[w].at = "read"
    /\ session' = [session EXCEPT !.message_count = writers[w].seen + 1,
                                  !.messages = Append(@, NextTurn(w))]
    /\ writers' = [writers EXCEPT ![w] = [@ EXCEPT !.at = "idle", !.calls = @ + 1]]
    /\ UNCHANGED <<streamVars, callVars, http, db_sessions>>

NextWrite == \E w \in Writers : ReadSessionRow(w) \/ CommitMessage(w)

WriteSpec == Init /\ [][NextWrite]_vars

----------------------------------------------------------------------------
(* The chat router: its routes in registration order, the matching of a   *)
(* request and the endpoints behind the GET and DELETE routes              *)

\* the path parameter of the session routes
Param == "{session_id}"

\* @router.<method>(<pattern>) on <endpoint>; a path is the sequence of its
\* segments below the prefix /api/chat
Route(method, pattern, endpoint) == [method |-> method, pattern |-> pattern, endpoint |-> endpoint]

\* the routes of the chat router, in the order of their decorators
Routes ==
    << Route("POST",   <<"stream">>,                     "stream_chat"),
       Route("POST",   <<"sessions">>,                   "create_session"),
       Route("GET",    <<"sessions">>,                   "get_sessions"),
       Route("DELETE", <<"sessions", "bulk-delete">>,    "bulk_delete_sessions"),
       Route("GET",    <<"sessions", Param>>,            "get_session"),
       Route("DELETE", <<"sessions", Param>>,            "delete_session"),
       Route("GET",    <<"sessions", Param, "export">>,  "export_session"),
       Route("DELETE", <<"sessions", "cleanup-empty">>,  "cleanup_empty_sessions") >>

\* a path parameter of type str matches any one segment
SegmentMatches(pat, seg) == pat = Param \/ pat = seg

PathMatches(pattern, path) ==
    /\ Len(pattern) = Len(path)
    /\ \A i \in 1..Len(pattern) : SegmentMatches(pattern[i], path[i])

\* the routes whose path and method match the request
FullMatches(method, path) ==
    { i \in 1..Len(Routes) : Routes[i].method = method /\ PathMatches(Routes[i].pattern, path) }

\* the routes whose path matches the request, whatever their method
PathOnlyMatches(path) == { i \in 1..Len(Routes) : PathMatches(Routes[i].pattern, path) }

\* the route registered first among a set of routes
FirstOf(S) == CHOOSE i \in S : \A j \in S : i <= j

\* the router goes through its routes in registration order and gives the
\* request to the first one that matches path and method; a path that no
\* route with the method matches is 405, a path no route matches is 404
Dispatch(method, path) ==
    IF FullMatches(method, path) # {}
    THEN Routes[FirstOf(FullMatches(method, path))].endpoint
    ELSE IF PathOnlyMatches(path) # {} THEN "405" ELSE "404"

NoRoute == {"404", "405"}

\* the value of the path parameter session_id
SessionIdOf(path) == path[2]

\* the session of the (single, anonymous) user with this id is there
Found(table, id) == id \in DOMAIN table /\ table[id].exists

\* ChatService.delete_session behind DELETE /sessions/{session_id}: the row
\* is deleted, or 404 when there is none
DeleteSessionEndpoint(table, id) ==
    IF Found(table, id)
    THEN [table |-> [table EXCEPT ![id] = NoRow], status |-> "200"]
    ELSE [table |-> table, status |-> "404"]

\* ChatService.cleanup_empty_sessions: every session whose id is not the
\* session_id of any message is deleted
CleanupEmptySessions(table) ==
    [s \in DOMAIN table |-> IF table[s].exists /\ table[s].messages = 0 THEN NoRow ELSE table[s]]

\* ChatService.delete_all_user_sessions: every session of the user is deleted
DeleteAllUserSessions(table) == [s \in DOMAIN table |-> NoRow]

\* the endpoints that only read: 404 when the session is not there
ReadEndpoint(table, id) ==
    [table |-> table, status |-> IF Found(table, id) THEN "200" ELSE "404"]

\* what the endpoint a request was given to does to the table, and the
\* status it answers with
Endpoint(name, path, table) ==
    CASE name = "delete_session"         -> DeleteSessionEndpoint(table, SessionIdOf(path))
      [] name = "cleanup_empty_sessions" -> [table |-> CleanupEmptySessions(table), status |-> "200"]
      [] name = "bulk_delete_sessions"   -> [table |-> DeleteAllUserSessions(table), status |-> "200"]
      [] name = "get_sessions"           -> [table |-> table, status |-> "200"]
      [] name = "get_session"            -> ReadEndpoint(table, SessionIdOf(path))
      [] name = "export_session"         -> ReadEndpoint(table, SessionIdOf(path))

\* the requests: GET and DELETE on the paths of the session routes, with the
\* id of a session, of no session, and the two fixed names
Methods == {"GET", "DELETE"}

Paths ==
    { <<"stream">>, <<"sessions">>, <<"sessions", "bulk-delete">>,
      <<"sessions", "cleanup-empty">>, <<"sessions", "s0">>, <<"messages">> }
    \cup { <<"sessions", s>> : s \in SessionIds }
    \cup { <<"sessions", s, "export">> : s \in SessionIds }

\* the most messages a session of the table holds
MaxRowMessages == 1

Rows == {NoRow} \cup { [exists |-> TRUE, messages |-> n] : n \in 0..MaxRowMessages }

Tables == [SessionIds -> Rows]

\* a request arrives and the router picks its endpoint, or answers 404/405
Receive ==
    /\ http = NoRequest
    /\ \E m \in Methods, p \in Paths :
          LET h == Dispatch(m, p)
          IN  http' = [method |-> m, path |-> p, handler |-> h,
                       status |-> IF h \in NoRoute THEN h ELSE NoneV]
    /\ UNCHANGED <<streamVars, session, callVars, writers, db_sessions>>

\* the endpoint runs and answers
RunEndpoint ==
    /\ http.handler # NoneV
    /\ http.status = NoneV
    /\ LET r == Endpoint(http.handler, http.path, db_sessions)
       IN  /\ db_sessions' = r.table
           /\ http' = [http EXCEPT !.status = r.status]
    /\ UNCHANGED <<streamVars, session, callVars, writers>>

InitRoute ==
    /\ pc = "request"
    /\ sc = "idle"
    /\ clock = 0
    /\ consumed = <<>>
    /\ current_message = ""
    /\ current_tool_calls = <<>>
    /\ message_id = NoneV
    /\ pending = <<>>
    /\ events = <<>>
    /\ frames = <<>>
    /\ session = [exists |-> TRUE, message_count |-> 0, messages |-> <<>>]
    /\ chatbot = DefaultBot
    /\ request_tools = None
    /\ create_call = NoCall
    /\ writers = NoWriters
    /\ http = NoRequest
    /\ db_sessions \in Tables

NextRoute == Receive \/ RunEndpoint

RouteSpec == InitRoute /\ [][NextRoute]_vars

----------------------------------------------------------------------------
(* Reading the histories *)

IsTextDelta(e) == e.event = "response.output_text.delta"
IsAdded(e)     == e.event = "response.output_item.added"
IsArgsDelta(e) == e.event = "response.function_call_arguments.delta"
IsArgsDone(e)  == e.event = "response.function_call_arguments.done"
IsItemDone(e)  == e.event = "response.output_item.done"
IsCompleted(e) == e.event = "response.completed"
IsError(e)     == e.event = "error"
IsMessageDone(e) == IsItemDone(e) /\ e.type = "message"
IsToolDone(e)    == IsItemDone(e) /\ e.type = "function_call"

\* the payloads of the frames written so far
Payloads(frs) == [i \in 1..Len(frs) |-> frs[i].data]

RECURSIVE DeltaConcat(_, _, _, _)
\* the `delta` payloads of the events of kind `kind` for item `id` among the
\* first k events of evs, concatenated in order
DeltaConcat(evs, kind, id, k) ==
    IF k = 0 THEN ""
    ELSE DeltaConcat(evs, kind, id, k - 1)
         \o (IF evs[k].event = kind /\ evs[k].item_id = id THEN evs[k].delta ELSE "")

RECURSIVE ContentConcat(_)
\* the truthy content deltas of a chunk sequence, concatenated in order
ContentConcat(cs) ==
    IF cs = <<>> THEN ""
    ELSE (IF Head(cs).hasChoices /\ Truthy(Head(cs).content) THEN Head(cs).content ELSE "")
         \o ContentConcat(Tail(cs))

\* a chunk that carries a finish reason
HasFinish(c) == c.hasChoices /\ Truthy(c.finish_reason)

\* stream_chat ran to its end and generate() has taken all of its events
StreamChatExhausted == sc \in {"returned", "failed"} /\ pending = <<>>

\* the assistant messages stored for the session, in order
AssistantMessages == SelectSeq(session.messages, LAMBDA m : m.role = "assistant")

----------------------------------------------------------------------------
(* C1 *)

\* the provider's stream was text-only, its last chunk carried a finish
\* reason, and stream_chat ran to its end without an exception
TextOnlyRun ==
    /\ sc = "returned"
    /\ pending = <<>>
    /\ consumed # <<>>
    /\ \A i \in 1..Len(consumed) : consumed[i].tool_calls = <<>>
    /\ HasFinish(Last(consumed))

\* a message item was completed with text S and no tool-call event was emitted
TextOnlyOutcome(S) ==
    /\ \E i \in 1..Len(events) :
          /\ IsMessageDone(events[i])
          /\ events[i].item_id = message_id
          /\ ContentText(events[i].content) = S
    /\ \A i \in 1..Len(events) :
          ~(IsAdded(events[i]) \/ IsArgsDelta(events[i]) \/ IsArgsDone(events[i]))

\* C1 as stated: for every text-only chunk sequence whose content deltas
\* concatenate to S and whose last chunk carries a finish reason, stream_chat
\* emits output_item.done for the message item with text exactly S and no
\* tool-call event.
C1_TextOnlyItemDone == TextOnlyRun => TextOnlyOutcome(ContentConcat(consumed))

\* C1 amended: the same for every such sequence whose content deltas
\* concatenate to a non-empty S.
C1_TextOnlyItemDoneNonEmpty ==
    (TextOnlyRun /\ ContentConcat(consumed) # "") => TextOnlyOutcome(ContentConcat(consumed))

\* scenario A ran: "Hel", "lo" + finish gave item done with text "Hello"
C1_Witness ==
    /\ TextOnlyRun
    /\ Len(consumed) = 2
    /\ consumed[1].content = "Hel"
    /\ consumed[2].content = "lo"
    /\ TextOnlyOutcome("Hello")

----------------------------------------------------------------------------
(* C2 *)

RECURSIVE PersistIdxs(_, _)
\* the indices, ascending, of the frames among the first k of frs whose
\* event makes generate() call add_message
PersistIdxs(frs, k) ==
    IF k = 0 THEN <<>>
    ELSE PersistIdxs(frs, k - 1) \o (IF NeedsPersist(frs[k].data) THEN <<k>> ELSE <<>>)

\* C2: every assistant message stored during the stream has as raw_content
\* the concatenation, in delivery order, of the `delta` payloads of the
\* response.output_text.delta frames sent to the client for its item before
\* the item's response.output_item.done frame; the n-th stored message
\* belongs to the n-th such done frame.
C2_PersistedEqualsDeltas ==
    LET idxs == PersistIdxs(frames, Len(frames))
        am   == AssistantMessages
    IN  /\ Len(am) <= Len(idxs)
        /\ \A n \in 1..Len(am) :
              am[n].raw_content =
                  DeltaConcat(Payloads(frames), "response.output_text.delta",
                              frames[idxs[n]].data.item_id, idxs[n] - 1)

\* scenario A was persisted: two text delta frames and the turn "Hello"
C2_Witness ==
    /\ Len(AssistantMessages) = 1
    /\ AssistantMessages[1].raw_content = "Hello"
    /\ Len(frames) >= 3
    /\ IsTextDelta(frames[1].data) /\ frames[1].data.delta = "Hel"
    /\ IsTextDelta(frames[2].data) /\ frames[2].data.delta = "lo"
    /\ IsMessageDone(frames[3].data)

----------------------------------------------------------------------------
(* C3 *)

CompletedIdxs == { i \in 1..Len(events) : IsCompleted(events[i]) }

ErrorIdxs == { i \in 1..Len(events) : IsError(events[i]) }

ItemDoneIdxs == { i \in 1..Len(events) : IsItemDone(events[i]) }

\* C3: response.completed is emitted at most once, nothing follows it, every
\* response.output_item.done precedes it, and an event sequence stream_chat
\* has produced to its end without an error event ends with it.
C3_CompletedOnceAndLast ==
    /\ Cardinality(CompletedIdxs) <= 1
    /\ \A i \in CompletedIdxs :
          /\ i = Len(events)
          /\ \A j \in ItemDoneIdxs : j < i
    /\ (StreamChatExhausted /\ ErrorIdxs = {})
          => (Cardinality(CompletedIdxs) = 1 /\ IsCompleted(Last(events)))

\* a stream with finished items ran to its end
C3_Witness ==
    /\ StreamChatExhausted
    /\ ErrorIdxs = {}
    /\ Cardinality(ItemDoneIdxs) >= 2
    /\ IsCompleted(Last(events))

----------------------------------------------------------------------------
(* C4 *)

\* the index of the last chunk that carried a finish reason, 0 if none did
LastFinishIdx(cs) ==
    LET fs == { i \in 1..Len(cs) : HasFinish(cs[i]) }
    IN  IF fs = {} THEN 0 ELSE CHOOSE i \in fs : \A j \in fs : j <= i

\* the text item received a delta in one of the first k chunks
TextStartedBy(cs, k) ==
    \E i \in 1..k : cs[i].hasChoices /\ Truthy(cs[i].content)

\* the provider-supplied call id T occurred in one of the first k chunks
ToolSeenBy(cs, k, T) ==
    \E i \in 1..k : \E j \in 1..Len(cs[i].tool_calls) : cs[i].tool_calls[j].id = T

\* the provider-supplied call ids
ProviderIds == {"c1", "c2"}

\* C4: once the provider call or a chunk read has raised and stream_chat's
\* events are consumed, exactly one error event was emitted, as the last
\* event; no response.completed was emitted; an item that received deltas
\* only after the last finish signal (or with no finish signal at all) has no
\* response.output_item.done, and no assistant turn is stored for it.
C4_RaiseGivesOneErrorNoFinalize ==
    (sc = "failed" /\ pending = <<>>) =>
        LET f == LastFinishIdx(consumed)
        IN  /\ Cardinality(ErrorIdxs) = 1
            /\ IsError(Last(events))
            /\ CompletedIdxs = {}
            /\ f = 0 => ItemDoneIdxs = {}
            /\ ~TextStartedBy(consumed, f) =>
                  /\ \A i \in ItemDoneIdxs : ~IsMessageDone(events[i])
                  /\ AssistantMessages = <<>>
            /\ \A T \in ProviderIds :
                  ~ToolSeenBy(consumed, f, T) =>
                      \A i \in ItemDoneIdxs : events[i].item_id # T

\* the provider raised after one partial text delta and one tool-call delta
C4_Witness ==
    /\ sc = "failed"
    /\ pending = <<>>
    /\ Len(events) = 4
    /\ IsTextDelta(events[1])
    /\ IsAdded(events[2])
    /\ IsArgsDelta(events[3])
    /\ IsError(events[4])

----------------------------------------------------------------------------
(* C5 *)

\* C5 as stated: when the provider's chunk sequence ends with an item open
\* and no chunk carried a finish reason, stream_chat emits neither
\* response.output_item.done nor response.completed.
C5_NoCompletedWithoutFinish ==
    (/\ sc = "returned"
     /\ pending = <<>>
     /\ LastFinishIdx(consumed) = 0
     /\ (Truthy(current_message) \/ current_tool_calls # <<>>))
        => (ItemDoneIdxs = {} /\ CompletedIdxs = {})

----------------------------------------------------------------------------
(* C6 *)

\* the client has received a frame whose event is response.completed or error
TerminalFrameSent ==
    \E i \in 1..Len(frames) : IsCompleted(frames[i].data) \/ IsError(frames[i].data)

\* C6: every accepted streaming request whose client stays connected
\* eventually delivers a terminal frame (response.completed or error), given
\* that the provider's stream ends or raises and add_message returns or raises.
C6_TerminalFrameEventually ==
    [](pc = "streaming" => <>(TerminalFrameSent \/ pc = "cancelled"))

\* a persistence failure ended the stream with an error frame
C6_Witness ==
    /\ pc = "error"
    /\ ItemDoneIdxs # {}
    /\ IsError(Last(frames).data)
    /\ CompletedIdxs = {}

----------------------------------------------------------------------------
(* C7 *)

IsDelta(e) == IsTextDelta(e) \/ IsArgsDelta(e)

\* C7 as stated: each item id receives at most one response.output_item.done,
\* and no delta event for an item id is emitted after that item's
\* response.output_item.done.
C7_OneDonePerItemNoDeltaAfter ==
    \A i \in ItemDoneIdxs :
        \A j \in (i + 1)..Len(events) :
            events[j].item_id = events[i].item_id
                => ~(IsItemDone(events[j]) \/ IsDelta(events[j]))

----------------------------------------------------------------------------
(* C8 *)

RECURSIVE AddedIds(_)
\* the item ids of the response.output_item.added events of evs, in order
AddedIds(evs) ==
    IF evs = <<>> THEN <<>>
    ELSE (IF IsAdded(Head(evs)) THEN <<Head(evs).item_id>> ELSE <<>>) \o AddedIds(Tail(evs))

\* what the finish of a stream whose events so far are `all` has to end with:
\* the text item's done when a text delta was emitted, then, per tool item in
\* the order of the added events, arguments.done directly followed by the
\* function_call item's done.  all[t + 1 .. Len(all)] is that tail.
FinishTailAt(all, t) ==
    LET ids     == AddedIds(all)
        hasText == \E i \in 1..Len(all) : IsTextDelta(all[i])
        m       == IF hasText THEN 1 ELSE 0
    IN  /\ Len(all) = t + m + 2 * Len(ids)
        /\ hasText =>
              /\ IsMessageDone(all[t + 1])
              /\ all[t + 1].role = "assistant"
        /\ \A k \in 1..Len(ids) :
              /\ IsArgsDone(all[t + m + 2 * k - 1])
              /\ all[t + m + 2 * k - 1].item_id = ids[k]
              /\ IsToolDone(all[t + m + 2 * k])
              /\ all[t + m + 2 * k].item_id = ids[k]
        /\ \A i \in (Len(all) - Len(pending') + 1)..t :
              ~(IsItemDone(all[i]) \/ IsArgsDone(all[i]))

\* C8: the step that handles a chunk carrying a finish reason yields, as the
\* last events of that chunk, exactly one response.output_item.done
\* (role=assistant) for the text item if it is open, then for every tool item,
\* in the order the ids were first seen, exactly one arguments.done
\* immediately followed by its function_call response.output_item.done.
C8_FinishFinalizesInOrder ==
    [][ (consumed' # consumed /\ HasFinish(Last(consumed')))
          => \E t \in 0..Len(events \o pending') : FinishTailAt(events \o pending', t) ]_vars

\* a finish chunk was handled with the text item and two tool items open,
\* c2 seen before c1
C8_Witness ==
    /\ sc = "open"
    /\ consumed # <<>>
    /\ HasFinish(Last(consumed))
    /\ Truthy(current_message)
    /\ Len(current_tool_calls) = 2
    /\ current_tool_calls[1].id = "c2"
    /\ current_tool_calls[2].id = "c1"
    /\ Len(pending) >= 5

----------------------------------------------------------------------------
(* C9 *)

\* the tool-call ids of the emitted events
EmittedToolIds ==
    { events[i].item_id : i \in { j \in 1..Len(events) :
          IsAdded(events[j]) \/ IsArgsDelta(events[j]) \/ IsArgsDone(events[j]) } }

\* C9 as stated: for every tool-call id T, response.output_item.added for T is
\* emitted exactly once and before every arguments.delta for T, and every
\* arguments.delta for T precedes arguments.done for T.
C9_AddedThenDeltasThenDone ==
    \A T \in EmittedToolIds :
        LET at(P(_)) == { i \in 1..Len(events) : events[i].item_id = T /\ P(events[i]) }
        IN  /\ Cardinality(at(IsAdded)) = 1
            /\ \A a \in at(IsAdded) : \A d \in at(IsArgsDelta) : a < d
            /\ \A d \in at(IsArgsDelta) : \A x \in at(IsArgsDone) : d < x

----------------------------------------------------------------------------
(* C10 *)

RECURSIVE AllToolDeltas(_)
\* the tool-call deltas of a chunk sequence, in arrival order
AllToolDeltas(cs) ==
    IF cs = <<>> THEN <<>>
    ELSE (IF Head(cs).hasChoices THEN Head(cs).tool_calls ELSE <<>>) \o AllToolDeltas(Tail(cs))

\* the argument fragments received in deltas that carry the call id T
FragmentsOf(cs, T) ==
    LET ds == SelectSeq(AllToolDeltas(cs),
                        LAMBDA d : d.id = T /\ d.hasFunction /\ Truthy(d.arguments))
    IN  [i \in 1..Len(ds) |-> ds[i].arguments]

\* the payloads of the arguments.delta events for T
ArgsDeltasOf(evs, T) ==
    LET ds == SelectSeq(evs, LAMBDA e : IsArgsDelta(e) /\ e.item_id = T)
    IN  [i \in 1..Len(ds) |-> ds[i].delta]

IsPrefix(a, b) == Len(a) <= Len(b) /\ SubSeq(b, 1, Len(a)) = a

\* C10: the arguments carried by arguments.done and by the function_call
\* output_item.done for T are the concatenation, in arrival order, of the
\* fragments received so far in deltas keyed by T: each fragment is passed on
\* as one arguments.delta event for T, and the done events carry the
\* concatenation of the arguments.delta events before them.  A response
\* without text content stores no assistant turn.
C10_ToolArgumentsAssembled ==
    /\ \A i \in 1..Len(events) :
          (IsArgsDone(events[i]) \/ IsToolDone(events[i])) =>
              events[i].arguments =
                  DeltaConcat(events, "response.function_call_arguments.delta",
                              events[i].item_id, i - 1)
    /\ \A T \in ProviderIds :
          /\ IsPrefix(ArgsDeltasOf(events, T), FragmentsOf(consumed, T))
          /\ sc # "closed" => ArgsDeltasOf(events \o pending, T) = FragmentsOf(consumed, T)
    /\ ContentConcat(consumed) = "" =>
          /\ AssistantMessages = <<>>
          /\ \A i \in ItemDoneIdxs : ~IsMessageDone(events[i])

\* scenario B ran to its end: c1 completed with {"location":"Tokyo"}, no
\* assistant turn stored
C10_Witness ==
    /\ pc = "done"
    /\ session.exists
    /\ AssistantMessages = <<>>
    /\ FragmentsOf(consumed, "c1") = <<Frag1, Frag2>>
    /\ \E i \in 1..Len(events) :
          /\ IsArgsDone(events[i])
          /\ events[i].item_id = "c1"
          /\ events[i].arguments = "{\"location\":\"Tokyo\"}"
    /\ \E i \in 1..Len(events) :
          /\ IsToolDone(events[i])
          /\ events[i].item_id = "c1"
          /\ events[i].arguments = "{\"location\":\"Tokyo\"}"

----------------------------------------------------------------------------
(* C11 *)

\* the frames written so far that carry a response.output_item.done event
ItemDoneFrames == { i \in 1..Len(frames) : IsItemDone(frames[i].data) }

\* generate() is between two events (or has returned) with no add_message
\* call in progress
NoWriteInProgress == pc \in {"streaming", "done"}

\* C11: every response.output_item.done delivered in a stream, for a message
\* item or a function_call item, has appended exactly one turn to the
\* session's history and raised message_count by exactly one: once the
\* writes have settled, the stored assistant turns and the increase of
\* message_count over the user turn both equal the number of such frames.
C11_OneTurnPerItemDone ==
    (NoWriteInProgress /\ session.exists) =>
        /\ Len(AssistantMessages) = Cardinality(ItemDoneFrames)
        /\ session.message_count = 1 + Cardinality(ItemDoneFrames)

----------------------------------------------------------------------------
(* C12 *)

\* the item ids of the response.output_item.done frames written so far
DoneItemIds == { frames[i].data.item_id : i \in ItemDoneFrames }

\* C12: an item id is persisted at most once per stream: when stream_chat
\* emits two response.output_item.done events with the same item id only the
\* first one causes an add_message write, so the session never holds more
\* assistant turns than there are distinct finished item ids.
C12_ItemPersistedAtMostOnce ==
    Len(AssistantMessages) <= Cardinality(DoneItemIds)

----------------------------------------------------------------------------
(* C13 *)

\* a step that carries the event stream forward: the next chunk is read,
\* the provider's stream ends, or the next event is written as a frame
EmissionStep == ReadChunk \/ StreamEnd \/ Deliver

\* an add_message call for a delivered item has been started and has not
\* yet committed
WriteOutstanding == pc = "persisting"

\* C13: a persistence write triggered by a response.output_item.done does
\* not block emission: while the write has not yet committed, the events
\* generated after that item can still be produced and delivered to the
\* client, i.e. a step of the event stream is possible.
C13_WriteDoesNotBlockEmission ==
    WriteOutstanding => ENABLED EmissionStep

----------------------------------------------------------------------------
(* C14 *)

\* generate() finished normally: the [DONE] frame is the last frame written
FinishedNormally == frames # <<>> /\ Last(frames).data = DoneSentinel

\* C14: when generate() finishes normally (terminal event and [DONE] frame
\* written), every persistence write started for an earlier
\* response.output_item.done has committed and none is outstanding: the
\* session holds one assistant turn, counted in message_count, for each
\* frame that started a write.
C14_WritesCommittedAtDone ==
    (FinishedNormally /\ session.exists) =>
        /\ ~WriteOutstanding
        /\ Len(AssistantMessages) = Len(PersistIdxs(frames, Len(frames)))
        /\ session.message_count = 1 + Len(PersistIdxs(frames, Len(frames)))

\* a stream with a finished text message ended with response.completed and
\* [DONE], and the turn is stored
C14_Witness ==
    /\ FinishedNormally
    /\ session.exists
    /\ Len(frames) >= 2
    /\ IsCompleted(frames[Len(frames) - 1].data)
    /\ Len(PersistIdxs(frames, Len(frames))) >= 1
    /\ Len(AssistantMessages) >= 1

----------------------------------------------------------------------------
(* C15 *)

\* C15: add_message makes the appended turn and the session metadata update
\* visible in one commit: in every committed state of an existing session
\* message_count equals the number of stored turns, so no state shows a turn
\* without its count or a count without its turn.
C15_TurnAndCountInOneCommit ==
    session.exists => session.message_count = Len(session.messages)

\* both writes of the request have committed: the user turn and one
\* assistant turn are stored and counted
C15_Witness ==
    /\ session.exists
    /\ session.message_count = 2
    /\ Len(session.messages) = 2
    /\ session.messages[1].role = "user"
    /\ session.messages[2].role = "assistant"

----------------------------------------------------------------------------
(* C16 *)

\* the request has been cancelled by a client disconnect
Cancelled == pc = "cancelled"

\* C16: when the client disconnects while the stream is in progress, the
\* provider chunk loop stops and no further event is generated or written
\* (neither response.completed nor error), in the step of the disconnect and
\* ever after; and no assistant turn is persisted for an item that had not
\* received its response.output_item.done: the only turn that can still
\* appear is the one whose write was already in flight.
C16_DisconnectStopsStream ==
    [][Cancelled' =>
          /\ consumed' = consumed
          /\ events' = events
          /\ frames' = frames
          /\ pending' = <<>>
          /\ sc' = "closed"
          /\ (session' # session => (~Cancelled /\ WriteOutstanding))
          /\ Len(SelectSeq(session'.messages, LAMBDA m : m.role = "assistant"))
                <= Len(PersistIdxs(frames', Len(frames')))]_vars

\* the client left after a text delta had been sent and before the item was
\* finished: nothing is stored for it
C16_Witness ==
    /\ Cancelled
    /\ \E i \in 1..Len(frames) : IsTextDelta(frames[i].data)
    /\ ItemDoneFrames = {}
    /\ (\A i \in 1..Len(frames) : ~IsCompleted(frames[i].data) /\ ~IsError(frames[i].data))
    /\ session.exists
    /\ AssistantMessages = <<>>
    /\ current_message # ""

----------------------------------------------------------------------------
(* C17 *)

\* no chunk up to and including the last finish signal carried a non-empty
\* content delta
NoTextBeforeFinish == ~TextStartedBy(consumed, LastFinishIdx(consumed))

\* the session's history as it stands after the user turn
AfterUserTurn == AddMessage([exists |-> TRUE, message_count |-> 0, messages |-> <<>>],
                            "user", UserText)

\* C17: if no non-empty content delta was received before the finish signal,
\* stream_chat emits no response.output_item.done of type message and no
\* assistant turn is persisted: the session's history and message_count stay
\* as they were after the user turn.
C17_EmptyResponseNotPersisted ==
    NoTextBeforeFinish =>
        /\ \A i \in 1..Len(events) : ~IsMessageDone(events[i])
        /\ \A i \in 1..Len(pending) : ~IsMessageDone(pending[i])
        /\ (session.exists /\ pc # "request") => session = AfterUserTurn

\* a response without text was finished and the stream ran to [DONE]: only
\* the user turn is stored
C17_Witness ==
    /\ FinishedNormally
    /\ LastFinishIdx(consumed) > 0
    /\ NoTextBeforeFinish
    /\ IsCompleted(Last(events))
    /\ session = AfterUserTurn

----------------------------------------------------------------------------
(* C18 *)

\* the frames generate() writes on its own account, after the event frames
OwnFrames == {Frame(DoneSentinel), Frame(GenerateErrorEv)}

\* the frames are the events taken from stream_chat, one frame each, in the
\* same order, followed by at most one frame of generate()'s own
FramesFollowEvents ==
    /\ Len(events) <= Len(frames)
    /\ Len(frames) <= Len(events) + 1
    /\ \A i \in 1..Len(events) : frames[i] = Frame(events[i])
    /\ Len(frames) = Len(events) + 1 => Last(frames) \in OwnFrames

\* C18: within one stream generate() writes exactly one SSE frame per event
\* yielded by stream_chat, in the same order: every event is taken from the
\* head of what stream_chat has yielded and written at once as the next
\* frame, so none is dropped, duplicated, merged or reordered; the only
\* other frames are generate()'s own closing frame.
C18_OneFramePerEventInOrder ==
    /\ []FramesFollowEvents
    /\ [][/\ pending' # pending /\ pending # <<>> /\ ~Cancelled' /\ pc' # "error"
             => /\ pending' = Tail(pending)
                /\ events' = Append(events, Head(pending))
                /\ frames' = Append(frames, Frame(Head(pending)))
          /\ events' # events
             => /\ pending # <<>>
                /\ pending' = Tail(pending)
                /\ events' = Append(events, Head(pending))
                /\ frames' = Append(frames, Frame(Head(pending)))
          /\ (frames' # frames /\ events' = events)
             => \E f \in OwnFrames : frames' = Append(frames, f)]_vars

\* scenario B was delivered whole: the five event kinds of a tool call and
\* response.completed, each as its own frame, then [DONE]
C18_Witness ==
    /\ FinishedNormally
    /\ Len(events) >= 5
    /\ Len(frames) = Len(events) + 1
    /\ \E i \in 1..Len(frames) : IsAdded(frames[i].data)
    /\ \E i \in 1..Len(frames) : IsArgsDelta(frames[i].data)
    /\ \E i \in 1..Len(frames) : IsArgsDone(frames[i].data)
    /\ \E i \in 1..Len(frames) : IsToolDone(frames[i].data)
    /\ IsCompleted(frames[Len(events)].data)

----------------------------------------------------------------------------
(* C19 *)

\* the frames written so far that carry the [DONE] sentinel
DoneFrames == { i \in 1..Len(frames) : frames[i].data = DoneSentinel }

\* a response.completed frame or an error frame has been written
CompletedOrErrorFrameSent ==
    \E i \in 1..Len(frames) : IsCompleted(frames[i].data) \/ IsError(frames[i].data)

\* generate() has run to its end, by its loop or by its except clause
GenerateReturned == pc \in {"done", "error"}

\* C19: after the client has been sent a response.completed frame or an
\* error frame, exactly one [DONE] sentinel frame is written, it is the last
\* frame, and no event frame follows it: [DONE] never occurs twice or before
\* the end, and once generate() has returned after such a frame the stream
\* ends with [DONE].
C19_DoneSentinelOnceAndLast ==
    /\ Cardinality(DoneFrames) <= 1
    /\ \A i \in DoneFrames : i = Len(frames)
    /\ (GenerateReturned /\ CompletedOrErrorFrameSent)
          => (Cardinality(DoneFrames) = 1 /\ Last(frames).data = DoneSentinel)

----------------------------------------------------------------------------
(* C20 *)

\* stream_chat caught a failure of the prompt formatting, the provider call
\* or a chunk
AssemblyFailed == sc = "failed"

\* C20: a failure detected while assembling the response (prompt formatting,
\* provider call, chunk handling) surfaces as a single error event that ends
\* stream_chat's event sequence, and never leaves stream_chat as an
\* exception: generate() goes on to take that event and is not sent into its
\* except clause, whose error frame only ever follows a started add_message.
C20_AssemblyFailureIsOneErrorEvent ==
    /\ AssemblyFailed =>
          /\ pc \in {"streaming", "done"}
          /\ \/ pending = <<StreamErrorEv>> /\ ErrorIdxs = {}
             \/ /\ pending = <<>>
                /\ Cardinality(ErrorIdxs) = 1
                /\ Last(events) = StreamErrorEv
    /\ \A i \in 1..Len(frames) :
          frames[i].data = GenerateErrorEv =>
              /\ i > 1
              /\ i = Len(frames)
              /\ NeedsPersist(frames[i - 1].data)
              /\ ~AssemblyFailed

\* the prompt formatting or the create call failed before any chunk was
\* read: the error event and [DONE] are the whole stream
C20_Witness ==
    /\ AssemblyFailed
    /\ consumed = <<>>
    /\ events = <<StreamErrorEv>>
    /\ frames = <<Frame(StreamErrorEv), Frame(DoneSentinel)>>
    /\ pc = "done"

----------------------------------------------------------------------------
(* C21 *)

\* the error kinds of the specification's taxonomy
ErrorKinds == {"upstream_unavailable", "upstream_protocol_error", "cancelled"}

\* C21: the error event carries an error kind drawn from
\* {upstream_unavailable, upstream_protocol_error, cancelled} that tells the
\* cause: every error event stream_chat has emitted has such a kind, and a
\* provider failure after partial text leaves no finished item and nothing
\* persisted.
C21_ErrorEventCarriesKind ==
    \A i \in ErrorIdxs :
        /\ events[i].type \in ErrorKinds
        /\ (LastFinishIdx(consumed) = 0 =>
               (ItemDoneIdxs = {} /\ AssistantMessages = <<>>))

----------------------------------------------------------------------------
(* C22 *)

\* C22: a persistence failure (add_message raising after a
\* response.output_item.done was delivered) is not injected into the client
\* stream: every error frame the client is sent is an event of stream_chat,
\* and generate() is never ended by the failure, so the remaining events
\* are still delivered.
C22_PersistFailureNotInjected ==
    /\ \A i \in 1..Len(frames) :
          IsError(frames[i].data) => frames[i].data = StreamErrorEv
    /\ pc # "error"

----------------------------------------------------------------------------
(* C23 *)

RECURSIVE RunFrom(_, _, _, _, _)
\* the events stream_chat yields over the chunks cs, from the locals given,
\* when every clock reading is t and the stream then ends
RunFrom(cs, t, msg_id, cm, ctc) ==
    IF cs = <<>> THEN <<CompletedEv>>
    ELSE LET c == Head(cs)
             r == HandleChunk(c, [i \in 1..Len(c.tool_calls) |-> t], msg_id, cm, ctc)
         IN  r.evs \o RunFrom(Tail(cs), t, msg_id, r.cm, r.ctc)

\* a run of stream_chat on fresh locals, started when the clock reads t
FreshRun(cs, t) == RunFrom(cs, t, "msg_" \o ToString(t), "", <<>>)

\* a chunk sequence that ends with a finish signal
Finished(cs) == cs # <<>> /\ HasFinish(Last(cs))

\* C23: determinism: two runs of stream_chat, each on fresh state, over the
\* same finished chunk sequence yield identical event sequences, item ids
\* included, whenever the two runs take place.
C23_ReplayIsDeterministic ==
    Finished(consumed) =>
        \A t1, t2 \in 0..MaxClock : FreshRun(consumed, t1) = FreshRun(consumed, t2)

----------------------------------------------------------------------------
(* C24 *)

\* the positions of the system entries of a prompt
SystemIdxs(prompt) == { i \in 1..Len(prompt) : prompt[i].role = "system" }

\* the positions of the stored messages that are system messages
StoredSystemIdxs(messages) ==
    { i \in 1..Len(messages) :
        messages[i].message_type = "message" /\ messages[i].role = "system" }

\* C24: _format_messages puts exactly one system entry, holding the bot's
\* system prompt, at index 0 of the prompt when the bot has a non-empty
\* system prompt, and no system entry for the bot, in particular no empty
\* one, when the prompt is absent or empty: the only other system entries
\* are those of stored system messages.
C24_SystemEntryIffPrompt ==
    create_call.made =>
        LET prompt == create_call.messages
            stored == Cardinality(StoredSystemIdxs(session.messages))
        IN  IF Truthy(chatbot.system_prompt)
            THEN /\ prompt # <<>>
                 /\ prompt[1] = [role |-> "system", content |-> chatbot.system_prompt]
                 /\ Cardinality(SystemIdxs(prompt)) = 1 + stored
            ELSE /\ Cardinality(SystemIdxs(prompt)) = stored
                 /\ \A i \in SystemIdxs(prompt) : Truthy(prompt[i].content)

\* a bot with an empty system prompt was called with a stored history: the
\* prompt starts with the first stored turn
C24_Witness ==
    /\ create_call.made
    /\ chatbot.system_prompt = ""
    /\ Len(session.messages) = 3
    /\ Len(create_call.messages) >= 2
    /\ create_call.messages[1].role = "user"

----------------------------------------------------------------------------
(* C25 *)

\* a stored message the provider can consume
Consumable(msg) ==
    msg.message_type = "message" /\ msg.role \in {"user", "assistant", "system"}

\* the prompt without the bot's system entry
ConversationPart(prompt, bot) ==
    IF Truthy(bot.system_prompt) THEN Tail(prompt) ELSE prompt

\* C25: for every stored message list, the part of the prompt after the
\* bot's system entry is exactly the subsequence of stored messages the
\* provider can consume (MESSAGE of role user, assistant or system), in
\* stored order, each with its role and raw content; every other turn is
\* dropped and the call is still made.
C25_PromptIsConsumableSubsequence ==
    create_call.made =>
        LET part == ConversationPart(create_call.messages, chatbot)
            kept == SelectSeq(session.messages, Consumable)
        IN  /\ Len(part) = Len(kept)
            /\ \A i \in 1..Len(kept) :
                  /\ part[i].role = kept[i].role
                  /\ part[i].content =
                        (IF kept[i].raw_content = NoneV THEN "" ELSE kept[i].raw_content)

\* a history of an assistant turn and a tool_call turn: the prompt holds the
\* system entry, the assistant turn and the new user turn
C25_Witness ==
    /\ create_call.made
    /\ Len(session.messages) = 3
    /\ session.messages[1] = StoredMessage("assistant", "message", "x")
    /\ session.messages[2] = StoredMessage("assistant", "tool_call", "c")
    /\ Len(create_call.messages) = 3
    /\ create_call.messages[2] = [role |-> "assistant", content |-> "x"]
    /\ create_call.messages[3] = [role |-> "user", content |-> UserText]

----------------------------------------------------------------------------
(* C26 *)

\* the value a call parameter must have: the bot's when the field is set,
\* zero included, and the default only when it is unset
SetOrDefault(field, default) == IF field # NoneV THEN field ELSE default

\* C26: each parameter of the provider call (model, temperature, max_tokens,
\* top_p, frequency_penalty, presence_penalty) equals the bot's configured
\* value whenever that bot field is set, including when it is set to 0, and
\* equals the process-wide default only when the field is unset (an empty
\* model name counts as unset).
C26_ParamsFromBotWhenSet ==
    create_call.made =>
        /\ create_call.model = OrStr(chatbot.model, OPENAI_MODEL)
        /\ create_call.temperature = SetOrDefault(chatbot.temperature, OPENAI_TEMPERATURE)
        /\ create_call.max_tokens = SetOrDefault(chatbot.max_tokens, OPENAI_MAX_TOKENS)
        /\ create_call.top_p = SetOrDefault(chatbot.top_p, "1.0")
        /\ create_call.frequency_penalty = SetOrDefault(chatbot.frequency_penalty, "0.0")
        /\ create_call.presence_penalty = SetOrDefault(chatbot.presence_penalty, "0.0")

----------------------------------------------------------------------------
(* C27 *)

\* an Optional list that is present and has at least one element
NonEmptyList(l) == l # None /\ Len(l[1]) > 0

\* C27: the provider call receives tool specs if and only if the caller
\* supplied a non-empty tool list and the bot's tools_enabled list is
\* non-empty; it then receives the caller's list unchanged, not filtered by
\* the names in tools_enabled, and otherwise it receives no tools.
C27_ToolsIffCallerAndBotLists ==
    create_call.made =>
        IF NonEmptyList(request_tools) /\ NonEmptyList(chatbot.tools_enabled)
        THEN create_call.tools = request_tools
        ELSE create_call.tools = None

\* the caller sent two tools and the bot enables only web_search: both
\* reach the provider
C27_Witness ==
    /\ create_call.made
    /\ request_tools = Some(<<WeatherTool, SearchTool>>)
    /\ chatbot.tools_enabled = Some(<<"web_search">>)
    /\ create_call.tools = Some(<<WeatherTool, SearchTool>>)

----------------------------------------------------------------------------
(* C28 *)

RECURSIVE ContentFragments(_)
\* the non-empty content fragments of a chunk sequence, in order
ContentFragments(cs) ==
    IF cs = <<>> THEN <<>>
    ELSE (IF Head(cs).hasChoices /\ Truthy(Head(cs).content)
          THEN <<Head(cs).content>> ELSE <<>>)
         \o ContentFragments(Tail(cs))

\* the response.output_text.delta events emitted so far, in order
TextDeltaEvents == SelectSeq(events, LAMBDA e : IsTextDelta(e))

\* C28: no start event is emitted for a text item, and the k-th
\* response.output_text.delta event of a stream carries as `delta` only the
\* k-th non-empty content fragment and as `text` the concatenation of
\* fragments 1..k: each event's `text` is the previous event's `text`
\* followed by its own `delta`.
C28_TextDeltaCarriesFragmentAndBuffer ==
    LET td  == TextDeltaEvents
        frs == ContentFragments(consumed)
    IN  /\ \A i \in 1..Len(events) :
              IsAdded(events[i]) =>
                  (events[i].type = "function_call" /\ events[i].item_id # message_id)
        /\ Len(td) <= Len(frs)
        /\ \A k \in 1..Len(td) :
              /\ td[k].item_id = message_id
              /\ td[k].delta = frs[k]
              /\ td[k].text = ConcatAll(SubSeq(frs, 1, k))
              /\ td[k].text = (IF k = 1 THEN "" ELSE td[k - 1].text) \o td[k].delta

\* scenario A: the second delta carries "lo" and the buffer "Hello"
C28_Witness ==
    /\ Len(TextDeltaEvents) = 2
    /\ TextDeltaEvents[1].delta = "Hel" /\ TextDeltaEvents[1].text = "Hel"
    /\ TextDeltaEvents[2].delta = "lo" /\ TextDeltaEvents[2].text = "Hello"
    /\ events[1] = TextDeltaEvents[1]

----------------------------------------------------------------------------
(* C29 *)

\* the keys of the dict stream_chat yields for an event, nested keys by
\* their path
EventKeys(e) ==
    {"event", "data"} \cup
    (CASE IsTextDelta(e) -> {"data.delta", "data.item_id", "data.text"}
       [] IsAdded(e)     -> {"data.item", "data.item.id", "data.item.type",
                             "data.item.name", "data.item.arguments", "data.item.status"}
       [] IsArgsDelta(e) -> {"data.delta", "data.item_id"}
       [] IsArgsDone(e)  -> {"data.item_id", "data.arguments"}
       [] IsMessageDone(e) -> {"data.item", "data.item.id", "data.item.type",
                               "data.item.role", "data.item.content"}
       [] IsToolDone(e)  -> {"data.item", "data.item.id", "data.item.type",
                             "data.item.name", "data.item.arguments", "data.item.status"}
       [] IsCompleted(e) -> {"data.response", "data.response.id",
                             "data.response.status", "data.response.output"}
       [] IsError(e)     -> {"data.message", "data.type"}
       [] OTHER          -> {})

\* the places where an event could carry its sequence number
SequenceKeys == {"sequence_number", "data.sequence_number", "data.item.sequence_number"}

\* C29: every event emitted in one stream carries a logical sequence number
\* (and the numbers strictly increase in emission order): each event's dict
\* has a sequence number key.
C29_EventsCarrySequenceNumber ==
    \A i \in 1..Len(events) : EventKeys(events[i]) \cap SequenceKeys # {}

----------------------------------------------------------------------------
(* C30 *)

\* the frames written so far that carry a terminal event: response.completed
\* or error, from stream_chat or from generate()'s except clause
TerminalFrames ==
    { i \in 1..Len(frames) : IsCompleted(frames[i].data) \/ IsError(frames[i].data) }

\* C30: in every stream the client receives at most one terminal event: a
\* response.completed frame and an error frame never both occur, neither
\* occurs twice, and no frame other than the [DONE] sentinel follows either
\* of them, whether the error comes from stream_chat or from generate()'s
\* own exception handler.
C30_AtMostOneTerminalFrame ==
    /\ Cardinality(TerminalFrames) <= 1
    /\ \A i \in TerminalFrames :
          \/ i = Len(frames)
          \/ i = Len(frames) - 1 /\ Last(frames).data = DoneSentinel

\* generate()'s own error frame ended a stream whose provider had more to
\* give: it is the only terminal frame and the last frame
C30_Witness ==
    /\ pc = "error"
    /\ Cardinality(TerminalFrames) = 1
    /\ Last(frames).data = GenerateErrorEv
    /\ Len(frames) >= 2
    /\ IsMessageDone(frames[Len(frames) - 1].data)

----------------------------------------------------------------------------
(* C31 *)

\* every add_message call that was started has committed
AllCommitted == \A w \in Writers : writers[w].at = "idle"

\* C31: for any interleaving of add_message calls issued by concurrent
\* requests, each with its own database session, against the same chat
\* session, once all calls have committed the session's message_count
\* equals the number of messages stored for it: no increment is lost to a
\* read-modify-write race.
C31_NoLostIncrement ==
    AllCommitted => session.message_count = Len(session.messages)

----------------------------------------------------------------------------
(* C32 *)

\* the handler has accepted the request and gone past its add_message call
RequestAccepted == pc \notin {"request", "rejected"}

\* the user's turn is committed before the provider stream is opened and is
\* the last entry of the prompt sent for the request
UserTurnFirst ==
    /\ sc # "idle" => RequestAccepted
    /\ (RequestAccepted /\ session.exists) =>
          (session.messages # <<>> /\ session.messages[1] = ChatMessage("user", UserText))
    /\ create_call.made =>
          (create_call.messages # <<>>
           /\ Last(create_call.messages) = [role |-> "user", content |-> UserText])

\* C32 as stated: the user's turn is committed before the provider stream is
\* opened and ends the prompt; it stays persisted when the provider call
\* fails, the stream is cancelled or the response is empty, so after a
\* failed stream the session differs from its pre-request state by exactly
\* that one user turn.
C32_OnlyUserTurnAfterFailedStream ==
    /\ UserTurnFirst
    /\ (AssemblyFailed /\ session.exists) => session = AfterUserTurn

\* C32, amended: the user's turn is committed before the provider stream is
\* opened and ends the prompt; it stays persisted whatever happens to the
\* stream, and as long as no assistant message item was finished and
\* delivered (the provider failed, the stream was cancelled or the response
\* was empty before that) the session differs from its pre-request state by
\* exactly that one user turn.
C32_OnlyUserTurnUnlessItemFinished ==
    /\ UserTurnFirst
    /\ (RequestAccepted /\ session.exists /\ PersistIdxs(frames, Len(frames)) = <<>>)
          => session = AfterUserTurn

\* the provider raised after a partial text delta and the stream was closed
\* with [DONE]: the user turn is all that was stored
C32_Witness ==
    /\ AssemblyFailed
    /\ FinishedNormally
    /\ create_call.made
    /\ \E i \in 1..Len(frames) : IsTextDelta(frames[i].data)
    /\ session = AfterUserTurn

----------------------------------------------------------------------------
(* C33 *)

\* the frames written by generate()'s except clause
GenerateErrorFrames == { i \in 1..Len(frames) : frames[i].data = GenerateErrorEv }

\* C33: if add_message raises while persisting an item whose
\* response.output_item.done frame was already sent, generate() writes one
\* error frame as the last frame of the stream, writes no [DONE] sentinel
\* and delivers none of the events stream_chat would have produced
\* afterwards; [DONE] is written only when stream_chat's sequence was
\* consumed to its end without a persistence exception.
C33_PersistFailureEndsStreamWithoutDone ==
    /\ pc = "error" =>
          /\ Cardinality(GenerateErrorFrames) = 1
          /\ Last(frames).data = GenerateErrorEv
          /\ DoneFrames = {}
          /\ Len(frames) = Len(events) + 1
          /\ NeedsPersist(Last(events))
    /\ GenerateErrorFrames # {} => pc = "error"
    /\ DoneFrames # {} =>
          /\ sc \in {"returned", "failed"}
          /\ pending = <<>>
          /\ GenerateErrorFrames = {}
          /\ Len(frames) = Len(events) + 1

\* the write for the message item of a finishing chunk failed while the
\* chunk's tool item still had its done events to come: none was delivered
C33_Witness ==
    /\ pc = "error"
    /\ HasFinish(Last(consumed))
    /\ current_tool_calls # <<>>
    /\ \A i \in 1..Len(frames) : ~IsToolDone(frames[i].data) /\ ~IsArgsDone(frames[i].data)
    /\ Last(frames).data = GenerateErrorEv

----------------------------------------------------------------------------
(* C34 *)

\* the tracked calls that were opened under a synthetic, clock-derived id
SyntheticCalls == SelectSeq(current_tool_calls, LAMBDA e : e.id \notin ProviderIds)

\* the argument buffers of a sequence of tracked calls
BuffersOf(calls) == [i \in 1..Len(calls) |-> calls[i].arguments]

\* the synthetic ids the clock can give
SyntheticIds == { "tool_" \o ToString(t) : t \in 0..MaxClock }

\* the buffers of provider ids hold their own fragments, the fragments without
\* id sit under synthetic ids, each of which has its added event and, after a
\* finish, its done event
SyntheticItemsKeptApart ==
    /\ \A i \in 1..Len(current_tool_calls) :
          LET e == current_tool_calls[i]
          IN  /\ e.id \in ProviderIds => e.arguments = ConcatAll(FragmentsOf(consumed, e.id))
              /\ e.id \notin ProviderIds => e.id \in SyntheticIds
              /\ \A j \in 1..Len(current_tool_calls) : current_tool_calls[j].id = e.id => j = i
    /\ ConcatAll(BuffersOf(SyntheticCalls)) = ConcatAll(FragmentsOf(consumed, NoneV))
    /\ (\E i \in 1..Len(AllToolDeltas(consumed)) : AllToolDeltas(consumed)[i].id = NoneV)
          => SyntheticCalls # <<>>
    /\ sc = "open" =>
          \A i \in 1..Len(SyntheticCalls) :
              LET S   == SyntheticCalls[i].id
                  evs == events \o pending
              IN  /\ Cardinality({ k \in 1..Len(evs) : IsAdded(evs[k]) /\ evs[k].item_id = S }) = 1
                  /\ HasFinish(Last(consumed)) =>
                        \E k \in 1..Len(evs) :
                            /\ IsToolDone(evs[k])
                            /\ evs[k].item_id = S
                            /\ evs[k].arguments = SyntheticCalls[i].arguments

\* C34: a tool-call delta that carries no id is never appended to the
\* argument buffer of a call opened under a provider-supplied id: the buffer
\* of a provider id holds the fragments keyed by that id only, the fragments
\* without id are accumulated under synthetic timestamp-derived ids, each of
\* which opened a tool item of its own with a response.output_item.added,
\* and at a finish signal each is finalized as a separate function_call item.
C34_NoIdDeltaGetsSyntheticItem == []SyntheticItemsKeptApart

\* the call c1 was opened with the first fragment of scenario B and the
\* second fragment came without id: c1 keeps the first fragment only and
\* the second is finished as an item of its own
C34_Witness ==
    /\ Len(current_tool_calls) = 2
    /\ current_tool_calls[1].id = "c1"
    /\ current_tool_calls[1].arguments = Frag1
    /\ current_tool_calls[2].id \in SyntheticIds
    /\ current_tool_calls[2].arguments = Frag2
    /\ \E k \in 1..Len(events) :
          /\ IsToolDone(events[k])
          /\ events[k].item_id = current_tool_calls[2].id
          /\ events[k].arguments = Frag2

----------------------------------------------------------------------------
(* C35 *)

\* the events stream_chat has produced so far, yielded or about to be
Produced == events \o pending

\* the positions of the response.output_item.added events of item T
AddedIdxs(T) == { i \in 1..Len(Produced) : IsAdded(Produced[i]) /\ Produced[i].item_id = T }

\* every function_call done event repeats the name of the one added event
\* of its item
DoneRepeatsAddedName ==
    \A k \in 1..Len(Produced) :
        IsToolDone(Produced[k]) =>
            /\ Cardinality(AddedIdxs(Produced[k].item_id)) = 1
            /\ \A i \in AddedIdxs(Produced[k].item_id) :
                  i < k /\ Produced[i].name = Produced[k].name

\* C35: the name of a tool-call item is fixed when its id is first seen:
\* item T has exactly one response.output_item.added event, it comes before
\* every function_call response.output_item.done of T, and each such done
\* event carries the `name` of the added event, also when a function name
\* for T arrives only in a later delta (both are null then).
C35_DoneNameIsAddedName == []DoneRepeatsAddedName

\* c1 was opened by a delta without name, a later delta for c1 carried the
\* name get_weather, and the item c1 was finished with a null name
C35_Witness ==
    /\ Len(consumed) = 2
    /\ consumed[1].tool_calls = <<MoreC1>>
    /\ \E i \in 1..Len(consumed[2].tool_calls) : consumed[2].tool_calls[i] = OpenC1
    /\ \E i, k \in 1..Len(events) :
          /\ IsAdded(events[i]) /\ events[i].item_id = "c1" /\ events[i].name = NoneV
          /\ IsToolDone(events[k]) /\ events[k].item_id = "c1" /\ events[k].name = NoneV

----------------------------------------------------------------------------
(* C36 *)

\* the place of an event in the body of the chunk loop: the text delta, the
\* tool-call loop, the completion of the message, the completion of the tools
Stage(e) ==
    IF IsTextDelta(e) THEN 1
    ELSE IF IsAdded(e) \/ IsArgsDelta(e) THEN 2
    ELSE IF IsMessageDone(e) THEN 3
    ELSE IF IsArgsDone(e) \/ IsToolDone(e) THEN 4
    ELSE 5

\* the tool-call deltas of chunk c that carry an arguments fragment
ArgCarriers(c) == SelectSeq(c.tool_calls, LAMBDA d : d.hasFunction /\ Truthy(d.arguments))

\* the events p were yielded for chunk c in the order of the loop body; cm
\* and ctc are the buffers after the chunk
ChunkEventsOrdered(c, p, cm, ctc) ==
    LET argDeltas == SelectSeq(p, IsArgsDelta)
    IN  /\ \A i, j \in 1..Len(p) : i < j => Stage(p[i]) <= Stage(p[j])
        /\ \A i \in 1..Len(p) : Stage(p[i]) \in 1..4
        /\ Len(SelectSeq(p, IsTextDelta)) = (IF c.hasChoices /\ Truthy(c.content) THEN 1 ELSE 0)
        \* an item's added event comes before its arguments delta
        /\ \A i, j \in 1..Len(p) :
              IsAdded(p[j]) /\ IsArgsDelta(p[i]) /\ p[i].item_id = p[j].item_id => j < i
        \* the added event of a delta that carries a fragment is followed
        \* at once by that delta's arguments delta
        /\ \A j \in 1..Len(p) :
              IsAdded(p[j]) /\ (\E i \in 1..Len(p) : IsArgsDelta(p[i]) /\ p[i].item_id = p[j].item_id)
                  => j < Len(p) /\ IsArgsDelta(p[j + 1]) /\ p[j + 1].item_id = p[j].item_id
        \* the arguments deltas follow the chunk's tool-call deltas
        /\ Len(argDeltas) = Len(ArgCarriers(c))
        /\ \A i \in 1..Len(argDeltas) : argDeltas[i].delta = ArgCarriers(c)[i].arguments

\* the done events in p finalize the buffers cm and ctc, which hold the
\* content and the tool-call deltas of the finishing chunk c itself
FinishIncludesChunk(c, p, cm, ctc) ==
    IF c.hasChoices /\ Truthy(c.finish_reason)
    THEN /\ Len(SelectSeq(p, IsMessageDone)) = (IF Truthy(cm) THEN 1 ELSE 0)
         /\ \A i \in 1..Len(p) : IsMessageDone(p[i]) => p[i].content[1].text = cm
         /\ LET dones == SelectSeq(p, IsToolDone)
            IN  /\ Len(dones) = Len(ctc)
                /\ \A i \in 1..Len(dones) :
                      /\ dones[i].item_id = ctc[i].id
                      /\ dones[i].arguments = ctc[i].arguments
    ELSE \A i \in 1..Len(p) : Stage(p[i]) \in 1..2

\* C36: the events derived from one chunk are emitted in a fixed order: the
\* text delta first, then per tool-call delta its added event (if the id is
\* new) followed by its arguments delta, then, if the chunk carries a finish
\* reason, the text item's response.output_item.done before any tool item's
\* done events; the done events carry the buffers after the finishing
\* chunk's own content and tool-call deltas were accumulated.
C36_ChunkEventsInFixedOrder ==
    [][consumed' # consumed =>
          /\ ChunkEventsOrdered(Last(consumed'), pending', current_message', current_tool_calls')
          /\ FinishIncludesChunk(Last(consumed'), pending', current_message', current_tool_calls')
          /\ current_message' = Accumulate(current_message, Last(consumed').content)]_vars

\* the chunk with text, the opening of c1, a delta without id and the finish
\* reason has just been read: ten events, from the text delta to the done
\* event of the synthetic item, whose arguments are the chunk's own fragment
C36_Witness ==
    /\ consumed # <<>>
    /\ Last(consumed) = Chunk(TRUE, "Hel", <<OpenC1, MoreNoId>>, "tool_calls")
    /\ Len(pending) = 10
    /\ IsTextDelta(pending[1])
    /\ IsAdded(pending[2]) /\ IsArgsDelta(pending[3])
    /\ IsAdded(pending[4]) /\ IsArgsDelta(pending[5])
    /\ IsMessageDone(pending[6]) /\ pending[6].content[1].text = current_message
    /\ IsToolDone(pending[8]) /\ pending[8].arguments = Frag1
    /\ IsToolDone(pending[10]) /\ pending[10].arguments = Frag2

----------------------------------------------------------------------------
(* C37 *)

\* add_message was awaited for a session that a concurrent delete removed
AddMessageRaised == pc = "error"

\* the frame of the finished assistant message is the newest frame
DoneFrameDelivered ==
    /\ frames # <<>>
    /\ events # <<>>
    /\ NeedsPersist(Last(frames).data)
    /\ Last(frames).data = Last(events)

\* the step on which add_message raises inside generate()
AddMessageRaises == pc = "persisting" /\ ~session.exists /\ pc' = "error"

\* C37: add_message on a session id that does not exist raises without
\* storing any message or changing a message_count: the step leaves the
\* session table as it was, a deleted session never holds a message; and
\* during a stream the call is made, and so raises, only after the item's
\* response.output_item.done frame has been delivered to the client.
C37_MissingSessionRaisesWithoutWrite ==
    /\ [](~session.exists => session = DeletedSession)
    /\ [](AddMessageRaised =>
            /\ ~session.exists
            /\ Len(frames) >= 2
            /\ Last(frames).data = GenerateErrorEv
            /\ NeedsPersist(frames[Len(frames) - 1].data))
    /\ [][AddMessageRaises => session' = session /\ DoneFrameDelivered]_vars
    /\ [][pc' = "error" => AddMessageRaises]_vars

\* a stream delivered the done frame of its message after the session had
\* been deleted, and add_message raised: nothing is stored
C37_Witness ==
    /\ AddMessageRaised
    /\ session = DeletedSession
    /\ \E i \in 1..Len(frames) : NeedsPersist(frames[i].data)

----------------------------------------------------------------------------
(* C38 *)

CleanupPath == <<"sessions", "cleanup-empty">>

\* a session of the table that has no messages
EmptySessions(table) == { s \in DOMAIN table : table[s].exists /\ table[s].messages = 0 }

\* C38: a DELETE request to /api/chat/sessions/cleanup-empty is dispatched
\* to cleanup_empty_sessions, not to the earlier-registered route
\* DELETE /api/chat/sessions/{session_id}, and once it is answered no
\* session without messages is left.
C38_CleanupEmptyReachesItsEndpoint ==
    (http.method = "DELETE" /\ http.path = CleanupPath) =>
        /\ http.handler = "cleanup_empty_sessions"
        /\ http.status # NoneV =>
              /\ http.status = "200"
              /\ EmptySessions(db_sessions) = {}

=============================================================================
